---- MODULE Spec2Model ----
(***************************************************************************)
(* A model of the persistent-process client of src/src/exiftool.rs: the    *)
(* session (struct ExifTool), its stderr monitor thread, the exiftool      *)
(* subprocess behind the three pipes, and the typed read layer on top of   *)
(* execute_raw.                                                            *)
(*                                                                         *)
(* Text is modelled with TLA+ strings (TLC evaluates Len, SubSeq and \o on *)
(* strings), so prefixes, substrings, trimming, joining and the sentinel   *)
(* search are computed on the characters as the code computes them.        *)
(***************************************************************************)
EXTENDS Integers, Sequences, FiniteSets, TLC

(* ------------------------------------------------------------------ *)
(* Bounds of the model                                                 *)
(* ------------------------------------------------------------------ *)
MaxCalls == 2            \* operations issued on one session
MaxPaths == 2            \* paths in one json_batch call
MaxShortRead == 1        \* bytes by which a read may fall short of what is available
StderrPipeCap == 1       \* lines the stderr pipe holds before the subprocess blocks
StdinPipeCap == 4        \* lines the stdin pipe holds before a write to it blocks
Width == 4               \* bits of the type that stands for u32; i64 and u64 have twice as many

(* ------------------------------------------------------------------ *)
(* Program constants                                                   *)
(* ------------------------------------------------------------------ *)
STDERR_POLL_INTERVAL == 1
STDERR_POLL_TIMEOUT == 2
CHUNK_SIZE == 4096

FNF_PREFIX == "Error: File not found - "
ready_markers == << "{ready}\n", "{ready}\r\n" >>

(* ------------------------------------------------------------------ *)
(* Text helpers (Rust str methods used by the code)                    *)
(* ------------------------------------------------------------------ *)
SetMin(S) == CHOOSE m \in S : \A x \in S : m <= x
SetMax(S) == CHOOSE m \in S : \A x \in S : x <= m

(* stands for a byte that occurs in no UTF-8 text (0xFF) *)
BadByte == "^"

starts_with(s, p) == Len(s) >= Len(p) /\ SubSeq(s, 1, Len(p)) = p

contains(s, p) ==
    \E i \in 1..(Len(s) - Len(p) + 1) : SubSeq(s, i, i + Len(p) - 1) = p

None == [some |-> FALSE]
Some(x) == [some |-> TRUE, v |-> x]

strip_prefix(s, p) ==
    IF starts_with(s, p) THEN Some(SubSeq(s, Len(p) + 1, Len(s))) ELSE None

IsWhitespace(c) == c \in {" ", "\t", "\n", "\r"}

trim(s) ==
    LET keep == {i \in 1..Len(s) : ~IsWhitespace(SubSeq(s, i, i))}
    IN  IF keep = {} THEN "" ELSE SubSeq(s, SetMin(keep), SetMax(keep))

RECURSIVE join(_, _)
join(parts, sep) ==
    IF Len(parts) = 0 THEN ""
    ELSE IF Len(parts) = 1 THEN parts[1]
    ELSE parts[1] \o sep \o join(Tail(parts), sep)

(* position of the first window of buf equal to marker, 0 when there is none *)
position(buf, marker) ==
    LET hits == {i \in 1..(Len(buf) - Len(marker) + 1) :
                    SubSeq(buf, i, i + Len(marker) - 1) = marker}
    IN  IF hits = {} THEN 0 ELSE SetMin(hits)

(* ------------------------------------------------------------------ *)
(* Results and errors (src/src/error.rs)                               *)
(* ------------------------------------------------------------------ *)
Ok(x) == [ok |-> TRUE, v |-> x]
Err(e) == [ok |-> FALSE, e |-> e]

FileNotFound(path, command_args) ==
    [kind |-> "FileNotFound", path |-> path, command_args |-> command_args]
ExifToolProcess(message, std_err, command_args) ==
    [kind |-> "ExifToolProcess", message |-> message, std_err |-> std_err,
     command_args |-> command_args]
UnexpectedFormat(path, command_args) ==
    [kind |-> "UnexpectedFormat", path |-> path, command_args |-> command_args]
TagNotFound(path, tag) == [kind |-> "TagNotFound", path |-> path, tag |-> tag]
TagDeserialization(path, tag) ==
    [kind |-> "TagDeserialization", path |-> path, tag |-> tag]
ExifToolNotFound == [kind |-> "ExifToolNotFound"]
JsonError == [kind |-> "Json"]
IoError == [kind |-> "Io"]
ProcessTerminated == [kind |-> "ProcessTerminated"]
StderrDisconnected == [kind |-> "StderrDisconnected"]

(* ------------------------------------------------------------------ *)
(* serde_json::Value, as far as the client inspects it                 *)
(* ------------------------------------------------------------------ *)
JNull == [kind |-> "null"]
JStr(s) == [kind |-> "str", s |-> s]
JNum(n) == [kind |-> "num", n |-> n]
JArr(items) == [kind |-> "arr", items |-> items]
JObj(fields) == [kind |-> "obj", fields |-> fields]

(* Value::get(key): the member of an object, nothing for any other value *)
get(value, key) ==
    IF value.kind = "obj" /\ key \in DOMAIN value.fields
    THEN Some(value.fields[key]) ELSE None

(* Typed results of serde_json::from_value::<T> *)
TargetTypes == {"String", "u32", "Option<String>", "Option<u32>"}
RString(s) == [t |-> "String", s |-> s]
RU32(n) == [t |-> "u32", n |-> n]
RNone == [t |-> "None"]
RSome(x) == [t |-> "Some", inner |-> x]

from_value_plain(T, value) ==
    IF T = "String"
    THEN IF value.kind = "str" THEN Ok(RString(value.s)) ELSE Err(JsonError)
    ELSE \* u32: the numbers of this model all lie below 2^32
         IF value.kind = "num" /\ value.n >= 0
         THEN Ok(RU32(value.n)) ELSE Err(JsonError)

from_value(T, value) ==
    IF T \in {"String", "u32"} THEN from_value_plain(T, value)
    ELSE IF value.kind = "null" THEN Ok(RNone)
    ELSE LET inner == from_value_plain(IF T = "Option<String>" THEN "String" ELSE "u32",
                                       value)
         IN  IF inner.ok THEN Ok(RSome(inner.v)) ELSE inner

(* ------------------------------------------------------------------ *)
(* The files the subprocess can see, and the JSON text it prints       *)
(* ------------------------------------------------------------------ *)
Files == {"a.jpg", "b.jpg"}
MissingFile == "m.jpg"
CorruptFile == "c.jpg"
GarbledFile == "g.jpg"
Paths == Files \cup {MissingFile}
TagNames == {"Make", "ImageWidth", "NoSuchTag"}
KeyOrder == << "SourceFile", "Make", "ImageWidth" >>

(* the tag values written into the files during the session, as the text
   that was assigned *)
VARIABLE disk

FileTags(f) ==
    IF f = "a.jpg"
    THEN [t \in {"Make", "ImageWidth"} |->
            IF t = "Make" THEN JStr("Huawei") ELSE JNum(2688)]
    ELSE [t \in {"Make"} |-> JStr("Nikon")]

(* the diagnostics a readable file provokes: b.jpg carries a minor warning *)
FileWarnings(f) ==
    IF f = "b.jpg" THEN << "Warning: [minor] Bad MakerNotes - b.jpg" >> ELSE << >>

(* the object printed for file f when the tags in requested are asked for
   (all tags when none is named) *)
EntryOf(tags, f, requested) ==
    LET shown == {t \in DOMAIN tags : requested = {} \/ t \in requested}
    IN  JObj([k \in {"SourceFile"} \cup shown |->
                IF k = "SourceFile" THEN JStr(f) ELSE tags[k]])

(* the values a caller may write: a string or an integer, and T::to_string *)
VStr(s) == [t |-> "str", s |-> s]
VInt(n) == [t |-> "int", n |-> n]
VBytes(b) == [t |-> "bytes", s |-> b]
to_string(value) == IF value.t = "str" THEN value.s ELSE ToString(value.n)

(* the JSON printer of the subprocess prints a text that has the form of a
   number as a number, every other text as a string *)
Digits == "0123456789"
LooksNumeric(text) ==
    /\ Len(text) > 0
    /\ \A i \in 1..Len(text) : position(Digits, SubSeq(text, i, i)) > 0
    /\ Len(text) = 1 \/ SubSeq(text, 1, 1) # "0"
RECURSIVE ToNumber(_)
ToNumber(text) ==
    IF Len(text) = 0 THEN 0
    ELSE 10 * ToNumber(SubSeq(text, 1, Len(text) - 1))
         + position(Digits, SubSeq(text, Len(text), Len(text))) - 1
Printed(text) == IF LooksNumeric(text) THEN JNum(ToNumber(text)) ELSE JStr(text)

(* tags that can be assigned: ImageWidth is derived from the image data *)
WritableTags == {"Make"}
BinaryTags == {"ThumbnailImage"}

(* the tags of f with the written values laid over the original ones *)
Overlay(tags, written) ==
    LET named == DOMAIN written \cap TagNames
    IN  [t \in DOMAIN tags \cup named |->
            IF t \in named THEN Printed(written[t]) ELSE tags[t]]
TagsOf(f) == Overlay(FileTags(f), disk[f])

(* the writes the caller may ask for *)
WriteRequests ==
    {<< "a.jpg", "Make", VStr("Canon") >>, << "a.jpg", "Make", VStr("2897") >>,
     << "a.jpg", "Make", VInt(2897) >>, << "a.jpg", "ImageWidth", VInt(5) >>,
     << MissingFile, "Make", VStr("Canon") >>}

(* every state the tags of f can be in *)
TagStates(f) ==
    {FileTags(f)} \cup
    {Overlay(FileTags(f), [t \in {r[2]} |-> to_string(r[3])]) :
        r \in {w \in WriteRequests : w[1] = f /\ w[2] \in WritableTags}}

Entry(f, requested) == EntryOf(TagsOf(f), f, requested)

Quote(s) == "\"" \o s \o "\""

RECURSIVE ValueText(_)
RECURSIVE ItemsText(_)
RECURSIVE FieldsText(_, _)
ItemsText(items) ==
    IF Len(items) = 0 THEN ""
    ELSE IF Len(items) = 1 THEN ValueText(items[1])
    ELSE ValueText(items[1]) \o "," \o ItemsText(Tail(items))
FieldsText(fields, keys) ==
    IF Len(keys) = 0 THEN ""
    ELSE Quote(keys[1]) \o ":" \o ValueText(fields[keys[1]])
         \o (IF Len(keys) = 1 THEN "" ELSE "," \o FieldsText(fields, Tail(keys)))
ValueText(value) ==
    CASE value.kind = "null" -> "null"
      [] value.kind = "str" -> Quote(value.s)
      [] value.kind = "num" -> ToString(value.n)
      [] value.kind = "arr" -> "[" \o ItemsText(value.items) \o "]"
      [] value.kind = "obj" ->
            "{" \o FieldsText(value.fields,
                             SelectSeq(KeyOrder, LAMBDA k : k \in DOMAIN value.fields))
                \o "}"

(* every document the subprocess can print for at most MaxPaths files *)
RequestSets == {{}} \cup {{t} : t \in TagNames}
EntryUniverse ==
    UNION {{EntryOf(tags, f, r) : tags \in TagStates(f), r \in RequestSets} : f \in Files}
SeqsUpTo(S, n) == UNION {[1..k -> S] : k \in 0..n}
JsonUniverse == {JArr(items) : items \in SeqsUpTo(EntryUniverse, MaxPaths)}
JsonTable == {<<ValueText(doc), doc>> : doc \in JsonUniverse}

(* serde_json::from_slice: the decoder inverts the printer on the documents
   above and rejects every other text *)
from_slice(bytes) ==
    IF \E row \in JsonTable : row[1] = bytes
    THEN Ok((CHOOSE row \in JsonTable : row[1] = bytes)[2])
    ELSE Err(JsonError)

(* ------------------------------------------------------------------ *)
(* The subprocess: what exiftool answers to one command                *)
(* ------------------------------------------------------------------ *)
Range(seq) == {seq[i] : i \in DOMAIN seq}
OptionFlags == {"-json", "-b"}
IsOption(a) == starts_with(a, "-")
PathArgs(cmd) == SelectSeq(cmd, LAMBDA a : ~IsOption(a))
Requested(cmd) ==
    {SubSeq(a, 2, Len(a)) : a \in {b \in Range(cmd) : IsOption(b) /\ b \notin OptionFlags}}

RECURSIVE Flatten(_)
Flatten(seqs) == IF Len(seqs) = 0 THEN << >> ELSE seqs[1] \o Flatten(Tail(seqs))

(* stderr: one line per missing file (with pad, followed by white space), one
   per unreadable file, and the warnings of each readable file; the warning
   about the garbled file quotes a byte of it that is not UTF-8 *)
ErrLines(cmd, pad) ==
    LET ps == PathArgs(cmd)
    IN  Flatten([i \in DOMAIN ps |->
                    IF ps[i] \in Files THEN FileWarnings(ps[i])
                    ELSE IF ps[i] = CorruptFile
                    THEN << "Error: Not a valid JPG - " \o ps[i] >>
                    ELSE IF ps[i] = GarbledFile
                    THEN << "Warning: Bad tag name " \o BadByte \o " - " \o ps[i] >>
                    ELSE << FNF_PREFIX \o ps[i] \o (IF pad THEN " " ELSE "") >>])

(* stdout: one entry per readable file, in the order of the paths; with skip
   the last of them is left out without a diagnostic *)
Entries(cmd, skip) ==
    LET ps == SelectSeq(PathArgs(cmd), LAMBDA p : p \in Files)
        es == [i \in DOMAIN ps |-> Entry(ps[i], Requested(cmd))]
    IN  IF skip /\ Len(es) > 0 THEN SubSeq(es, 1, Len(es) - 1) ELSE es

PlainValue(value) == IF value.kind = "str" THEN value.s ELSE ToString(value.n)
RECURSIVE PlainText(_)
PlainText(entries) ==
    IF Len(entries) = 0 THEN ""
    ELSE LET f == entries[1].fields
             keys == SelectSeq(KeyOrder, LAMBDA k : k \in DOMAIN f /\ k # "SourceFile")
         IN  join([i \in DOMAIN keys |-> keys[i] \o ": " \o PlainValue(f[keys[i]]) \o "\n"], "")
             \o PlainText(Tail(entries))

(* with -b the values are printed as they are stored, without names and
   without line ends; a tag a file does not carry prints nothing *)
RawValue(f, t) ==
    IF t \in DOMAIN disk[f] THEN disk[f][t]
    ELSE IF t \in DOMAIN FileTags(f) THEN PlainValue(FileTags(f)[t])
    ELSE ""
BinaryPayload(cmd, skip) ==
    LET ps == SelectSeq(PathArgs(cmd), LAMBDA p : p \in Files)
        fs == IF skip /\ Len(ps) > 0 THEN SubSeq(ps, 1, Len(ps) - 1) ELSE ps
        ts == SelectSeq(cmd, LAMBDA a : IsOption(a) /\ a \notin OptionFlags)
    IN  join([i \in DOMAIN fs |->
                join([j \in DOMAIN ts |-> RawValue(fs[i], SubSeq(ts[j], 2, Len(ts[j])))],
                     "")], "")

Payload(cmd, skip, brackets) ==
    LET es == Entries(cmd, skip)
    IN  IF "-json" \in Range(cmd)
        THEN IF Len(es) = 0 /\ ~brackets THEN "" ELSE ValueText(JArr(es))
        ELSE IF "-b" \in Range(cmd) THEN BinaryPayload(cmd, skip)
        ELSE PlainText(es)

Responses(cmd) ==
    {[err |-> ErrLines(cmd, pad), payload |-> Payload(cmd, skip, brackets),
      entries |-> Entries(cmd, skip)] :
        skip \in BOOLEAN, pad \in BOOLEAN, brackets \in BOOLEAN}

(* ------------------------------------------------------------------ *)
(* parse_fn::u32::permissive.  The integer types keep their relation   *)
(* at a width that can be enumerated: u32 has Width bits, i64 and u64  *)
(* twice as many.  A float is a number of halves.                      *)
(* ------------------------------------------------------------------ *)
U32_MAX == 2^Width - 1
I64_MIN == -(2^(2 * Width - 1))
I64_MAX == 2^(2 * Width - 1) - 1
U64_MAX == 2^(2 * Width) - 1

DeI64(n) == [t |-> "i64", n |-> n]
DeU64(n) == [t |-> "u64", n |-> n]
DeF64(halves) == [t |-> "f64", halves |-> halves]
DeStr(s) == [t |-> "str", s |-> s]
DeBool == [t |-> "bool"]
DeNone == [t |-> "none"]

(* `value as u32` on an integer keeps the low bits *)
as_u32(value) == value % (U32_MAX + 1)

visit_i64(value) == IF value >= 0 THEN Some(as_u32(value)) ELSE None
visit_u64(value) == Some(as_u32(value))

(* inside the range `value as u32` on a float drops the fraction *)
visit_f64(halves) ==
    IF halves >= 0 /\ halves <= 2 * U32_MAX THEN Some(halves \div 2) ELSE None

(* str::parse::<u32>: an optional plus sign and decimal digits, no overflow *)
RECURSIVE decimal(_)
decimal(s) ==
    IF Len(s) = 0 THEN 0
    ELSE 10 * decimal(SubSeq(s, 1, Len(s) - 1))
         + (position(Digits, SubSeq(s, Len(s), Len(s))) - 1)
parse_u32(s) ==
    LET digits == IF starts_with(s, "+") THEN SubSeq(s, 2, Len(s)) ELSE s
    IN  IF /\ Len(digits) > 0
           /\ \A i \in 1..Len(digits) : position(Digits, SubSeq(digits, i, i)) > 0
           /\ decimal(digits) <= U32_MAX
        THEN Some(decimal(digits)) ELSE None

(* value.split_whitespace().next().unwrap_or("") *)
first_part(s) ==
    LET keep == {i \in 1..Len(s) : ~IsWhitespace(SubSeq(s, i, i))}
        from == SetMin(keep)
        gaps == {i \in from..Len(s) : IsWhitespace(SubSeq(s, i, i))}
    IN  IF keep = {} THEN ""
        ELSE SubSeq(s, from, IF gaps = {} THEN Len(s) ELSE SetMin(gaps) - 1)

visit_str(value) ==
    IF parse_u32(value).some THEN parse_u32(value) ELSE parse_u32(first_part(value))

(* deserialize_any hands the value to the visitor method of its type *)
permissive(d) ==
    CASE d.t = "i64" -> visit_i64(d.n)
      [] d.t = "u64" -> visit_u64(d.n)
      [] d.t = "f64" -> visit_f64(d.halves)
      [] d.t = "str" -> visit_str(d.s)
      [] d.t \in {"bool", "none"} -> None

(* ------------------------------------------------------------------ *)
(* The client's functions above execute_raw.  Each takes the outcome   *)
(* raw of the one execute_raw call it makes and yields the command it  *)
(* sends (cmd, None when it returns before sending) and its result.    *)
(* ------------------------------------------------------------------ *)
NoRaw == Err([kind |-> "NotRun"])
Call(cmd, result) == [cmd |-> cmd, result |-> result]

(* step 6 of execute_raw: the first line that decides *)
(* variant: the generic "Error:" test comes before the file-not-found test *)
RECURSIVE scan_lines_generic_first(_, _, _)
scan_lines_generic_first(stderr_lines, i, command_args) ==
    IF i > Len(stderr_lines) THEN None
    ELSE LET err_line == stderr_lines[i]
             filename == strip_prefix(err_line, FNF_PREFIX)
         IN  IF contains(err_line, "Error:")
             THEN Some(ExifToolProcess(err_line, join(stderr_lines, "\n"), command_args))
             ELSE IF filename.some
             THEN Some(FileNotFound(trim(filename.v), command_args))
             ELSE scan_lines_generic_first(stderr_lines, i + 1, command_args)

(* variant: a file-not-found line wins wherever it stands among the lines *)
scan_lines_fnf_anywhere(stderr_lines, i, command_args) ==
    LET fnf == {j \in DOMAIN stderr_lines : starts_with(stderr_lines[j], FNF_PREFIX)}
    IN  IF fnf # {}
        THEN Some(FileNotFound(
                 trim(strip_prefix(stderr_lines[SetMin(fnf)], FNF_PREFIX).v),
                 command_args))
        ELSE scan_lines_generic_first(stderr_lines, i, command_args)

RECURSIVE scan_lines(_, _, _)
scan_lines(stderr_lines, i, command_args) ==
    IF i > Len(stderr_lines) THEN None
    ELSE LET err_line == stderr_lines[i]
             filename == strip_prefix(err_line, FNF_PREFIX)
         IN  IF filename.some
             THEN Some(FileNotFound(trim(filename.v), command_args))
             ELSE IF contains(err_line, "Error:")
             THEN Some(ExifToolProcess(err_line, join(stderr_lines, "\n"), command_args))
             ELSE scan_lines(stderr_lines, i + 1, command_args)

(* variant: a warning line fails the command *)
classify_warning_fails(args, stdout_bytes, stderr_lines) ==
    LET found == scan_lines(stderr_lines, 1, join(args, " "))
        warned == \E i \in DOMAIN stderr_lines : contains(stderr_lines[i], "Warning:")
    IN  IF found.some THEN Err(found.v)
        ELSE IF warned
        THEN Err(ExifToolProcess(stderr_lines[1], join(stderr_lines, "\n"), join(args, " ")))
        ELSE Ok(stdout_bytes)

(* variant: a payload that is not empty wins over the diagnostic lines *)
classify_payload_wins(args, stdout_bytes, stderr_lines) ==
    LET found == scan_lines(stderr_lines, 1, join(args, " "))
    IN  IF found.some /\ stdout_bytes = "" THEN Err(found.v) ELSE Ok(stdout_bytes)

classify(args, stdout_bytes, stderr_lines) ==
    LET found == scan_lines(stderr_lines, 1, join(args, " "))
    IN  IF found.some THEN Err(found.v) ELSE Ok(stdout_bytes)

process_terminated(stderr_lines) ==
    IF Len(stderr_lines) > 0
    THEN Err(ExifToolProcess(
             "Process terminated unexpectedly. Stderr:\n" \o join(stderr_lines, "\n"),
             join(stderr_lines, "\n"), "<unknown - process terminated>"))
    ELSE Err(ProcessTerminated)

(* variant: an empty payload is handed to the decoder *)
json_execute_decode_empty(args, raw) ==
    LET cmd_args == << "-json" >> \o args
    IN  Call(Some(cmd_args),
             IF ~raw.ok THEN raw
             ELSE from_slice(raw.v))

json_execute(args, raw) ==
    LET cmd_args == << "-json" >> \o args
        named == SelectSeq(args, LAMBDA a : ~starts_with(a, "-"))
    IN  Call(Some(cmd_args),
             IF ~raw.ok THEN raw
             ELSE IF Len(raw.v) = 0
             THEN Err(UnexpectedFormat(IF Len(named) > 0 THEN named[1] ELSE "<unknown>",
                                       join(cmd_args, " ")))
             ELSE from_slice(raw.v))

(* variant: no early return for an empty collection of paths *)
json_batch_no_guard(file_paths, extra_args, raw) ==
    LET args == extra_args \o file_paths
        rest(exec) ==
            Call(exec.cmd,
                 IF ~exec.result.ok THEN exec.result
                 ELSE IF exec.result.v.kind = "arr" THEN Ok(exec.result.v.items)
                 ELSE Err(UnexpectedFormat(join(file_paths, ", "),
                                           "-json " \o join(args, " "))))
    IN  rest(json_execute(args, raw))

(* variant: an empty collection of paths yields an empty list *)
json_batch_empty_ok(file_paths, extra_args, raw) ==
    LET args == extra_args \o file_paths
        rest(exec) ==
            Call(exec.cmd,
                 IF ~exec.result.ok THEN exec.result
                 ELSE IF exec.result.v.kind = "arr" THEN Ok(exec.result.v.items)
                 ELSE Err(UnexpectedFormat(join(file_paths, ", "),
                                           "-json " \o join(args, " "))))
    IN  IF Len(file_paths) = 0
        THEN Call(None, Ok(<< >>))
        ELSE rest(json_execute(args, raw))

(* rest(exec) is what follows the call of json_execute, given what it returned;
   the same form is used for every layered function below *)
json_batch(file_paths, extra_args, raw) ==
    LET args == extra_args \o file_paths
        rest(exec) ==
            Call(exec.cmd,
                 IF ~exec.result.ok THEN exec.result
                 ELSE IF exec.result.v.kind = "arr" THEN Ok(exec.result.v.items)
                 ELSE Err(UnexpectedFormat(join(file_paths, ", "),
                                           "-json " \o join(args, " "))))
    IN  IF Len(file_paths) = 0
        THEN Call(None, Err(UnexpectedFormat("", join(extra_args, ","))))
        ELSE rest(json_execute(args, raw))

(* variant: an empty array becomes a null value *)
json_null_on_empty(file_path, extra_args, raw) ==
    LET rest(batch) ==
            Call(batch.cmd,
                 IF ~batch.result.ok THEN batch.result
                 ELSE IF Len(batch.result.v) > 0 THEN Ok(batch.result.v[1])
                 ELSE Ok(JNull))
    IN  rest(json_batch(<< file_path >>, extra_args, raw))

(* variant: a response with more than one entry is refused *)
json_single_only(file_path, extra_args, raw) ==
    LET args == extra_args \o << file_path >>
        rest(batch) ==
            Call(batch.cmd,
                 IF ~batch.result.ok THEN batch.result
                 ELSE IF Len(batch.result.v) = 1 THEN Ok(batch.result.v[1])
                 ELSE Err(UnexpectedFormat(file_path, join(args, " "))))
    IN  rest(json_batch(<< file_path >>, extra_args, raw))

json(file_path, extra_args, raw) ==
    LET args == extra_args \o << file_path >>
        rest(batch) ==
            Call(batch.cmd,
                 IF ~batch.result.ok THEN batch.result
                 ELSE IF Len(batch.result.v) > 0 THEN Ok(batch.result.v[1])
                 ELSE Err(UnexpectedFormat(file_path, join(args, " "))))
    IN  rest(json_batch(<< file_path >>, extra_args, raw))

(* variant: a missing key yields null instead of an error *)
json_tag_null_on_missing(file_path, tag, raw) ==
    LET tag_arg == "-" \o tag
        found(member) == IF member.some THEN Ok(member.v) ELSE Ok(JNull)
        rest(metadata_json) ==
            Call(metadata_json.cmd,
                 IF ~metadata_json.result.ok THEN metadata_json.result
                 ELSE found(get(metadata_json.result.v, tag)))
    IN  rest(json(file_path, << tag_arg >>, raw))

json_tag(file_path, tag, raw) ==
    LET tag_arg == "-" \o tag
        found(member) == IF member.some THEN Ok(member.v)
                         ELSE Err(TagNotFound(file_path, tag))
        rest(metadata_json) ==
            Call(metadata_json.cmd,
                 IF ~metadata_json.result.ok THEN metadata_json.result
                 ELSE found(get(metadata_json.result.v, tag)))
    IN  rest(json(file_path, << tag_arg >>, raw))

(* variant: a missing tag is an error for every target type *)
read_tag_no_fallback(T, file_path, tag, raw) ==
    LET converted(typed) == IF typed.ok THEN typed
                            ELSE Err(TagDeserialization(file_path, tag))
        rest(value_result) ==
            Call(value_result.cmd,
                 IF value_result.result.ok
                 THEN converted(from_value(T, value_result.result.v))
                 ELSE value_result.result)
    IN  rest(json_tag(file_path, tag, raw))

(* variant: whether T accepts null is tested before the real value is converted *)
read_tag_null_first(T, file_path, tag, raw) ==
    LET fallback(absent) == IF absent.ok THEN absent
                            ELSE Err(TagNotFound(file_path, tag))
        converted(typed, absent) ==
            IF absent.ok THEN absent
            ELSE IF typed.ok THEN typed
            ELSE Err(TagDeserialization(file_path, tag))
        rest(value_result) ==
            Call(value_result.cmd,
                 IF value_result.result.ok
                 THEN converted(from_value(T, value_result.result.v), from_value(T, JNull))
                 ELSE IF value_result.result.e.kind = "TagNotFound"
                 THEN fallback(from_value(T, JNull))
                 ELSE value_result.result)
    IN  rest(json_tag(file_path, tag, raw))

(* variant: a target type that accepts absence gets the absent value for
   every error of json_tag *)
read_tag_absent_on_error(T, file_path, tag, raw) ==
    LET converted(typed) == IF typed.ok THEN typed
                            ELSE Err(TagDeserialization(file_path, tag))
        fallback(absent, e) == IF absent.ok THEN absent ELSE e
        rest(value_result) ==
            Call(value_result.cmd,
                 IF value_result.result.ok
                 THEN converted(from_value(T, value_result.result.v))
                 ELSE fallback(from_value(T, JNull), value_result.result))
    IN  rest(json_tag(file_path, tag, raw))

read_tag(T, file_path, tag, raw) ==
    LET converted(typed) == IF typed.ok THEN typed
                            ELSE Err(TagDeserialization(file_path, tag))
        fallback(absent) == IF absent.ok THEN absent
                            ELSE Err(TagNotFound(file_path, tag))
        rest(value_result) ==
            Call(value_result.cmd,
                 IF value_result.result.ok
                 THEN converted(from_value(T, value_result.result.v))
                 ELSE IF value_result.result.e.kind = "TagNotFound"
                 THEN fallback(from_value(T, JNull))
                 ELSE value_result.result)
    IN  rest(json_tag(file_path, tag, raw))

(* the unit value of Ok(()) *)
Unit == [unit |-> TRUE]

(* the path NamedTempFile::new picks for the staged bytes *)
TempPath == "/tmp/.tmpA1"

(* variant: an empty payload is handed back as it is *)
read_tag_binary_empty_ok(file_path, tag, raw) ==
    LET tag_arg == "-" \o tag
        args == << file_path, "-b", tag_arg >>
    IN  Call(Some(args), raw)

read_tag_binary(file_path, tag, raw) ==
    LET tag_arg == "-" \o tag
        args == << file_path, "-b", tag_arg >>
        rest(bytes) ==
            IF ~bytes.ok THEN bytes
            ELSE IF bytes.v = "" THEN Err(TagNotFound(file_path, tag))
            ELSE Ok(bytes.v)
    IN  Call(Some(args), rest(raw))

(* variant: Ok only when the payload reports an updated file *)
write_tag_checks_payload(file_path, tag, value, extra_args, raw) ==
    LET value_str == to_string(value)
        tag_arg == "-" \o tag \o "=" \o value_str
        args == << tag_arg >> \o extra_args \o << file_path >>
    IN  Call(Some(args),
             IF ~raw.ok THEN raw
             ELSE IF contains(raw.v, "image files updated") THEN Ok(Unit)
             ELSE Err(UnexpectedFormat(file_path, join(args, " "))))

write_tag(file_path, tag, value, extra_args, raw) ==
    LET value_str == to_string(value)
        tag_arg == "-" \o tag \o "=" \o value_str
        args == << tag_arg >> \o extra_args \o << file_path >>
    IN  Call(Some(args), IF raw.ok THEN Ok(Unit) ELSE raw)

write_tag_binary(file_path, tag, temp_path_str, extra_args, raw) ==
    LET tag_arg == "-" \o tag \o "<=" \o temp_path_str
        args == << tag_arg >> \o extra_args \o << file_path >>
    IN  Call(Some(args), IF raw.ok THEN Ok(Unit) ELSE raw)

(* ------------------------------------------------------------------ *)
(* State                                                               *)
(* ------------------------------------------------------------------ *)

VARIABLES
    calls,         \* operations started on this session
    pc,            \* where the caller's thread is
    op,            \* the operation it is running, with its arguments
    prev,          \* how the previous operation's execute_raw ended
    terminated,    \* an execute_raw of this session has returned ProcessTerminated
    drop_steps,    \* Drop: the steps performed so far, each with its outcome
    temp_file,     \* write_tag_binary: the NamedTempFile of the call in progress
    last_write,    \* the last write_tag that returned Ok: its path, tag and value
    buffer,        \* read_response_until_ready: bytes accumulated
    stdout_bytes,  \* execute_raw: payload returned by the framer
    eof,           \* the stdout read hit end-of-stream
    err_lines,     \* drain_stderr: lines captured so far
    sleeps,        \* drain_stderr: poll sleeps taken
    drained,       \* outcome of drain_stderr
    raw,           \* outcome of execute_raw
    result,        \* outcome of the operation
    stdin_buf,     \* BufWriter<ChildStdin>: lines not yet flushed
    stdin_pipe,    \* lines the subprocess has not read yet
    stdout_pipe,   \* bytes the client has not read yet
    stderr_pipe,   \* lines the monitor has not read yet
    chan,          \* mpsc channel from the monitor to the session
    monitor,       \* "none" before the thread is started, "running" or "ended"
    sub_pc,        \* subprocess: "none" before it is started, "wait", "run" or "dead"
    sub_err,       \* subprocess: stderr lines still to write
    sub_out,       \* subprocess: stdout bytes still to write
    answer,        \* what the subprocess decided to answer to its last command
    stream,        \* the bytes a scripted subprocess writes to stdout over the session
    log            \* where kept: the lines written to stderr and the lines sent on the channel

stage_vars == << temp_file, last_write >>
caller_vars == << calls, pc, op, prev, terminated, stage_vars, drop_steps, buffer, stdout_bytes, eof, err_lines, sleeps,
                  drained, raw, result, stdin_buf >>
pipe_vars == << stdin_pipe, stdout_pipe, stderr_pipe, chan >>
sub_vars == << sub_pc, sub_err, sub_out, answer, disk, stream, log >>
vars == << caller_vars, pipe_vars, monitor, sub_vars >>

NoOp == [name |-> "none"]

(* the history of the diagnostic stream, kept in the sessions that follow it:
   the text of every line the subprocess has written to stderr and of every
   line the monitor has sent on the channel, in order *)
NoLog == [on |-> FALSE, written |-> << >>, sent |-> << >>]
EmptyLog == [on |-> TRUE, written |-> << >>, sent |-> << >>]
Logged(l, k, text) == IF l.on THEN [l EXCEPT ![k] = Append(@, text)] ELSE l
NoFile == [exists |-> FALSE]
NoTags == [t \in {} |-> ""]
NoAnswer == [taken |-> FALSE, args |-> << >>, err |-> << >>, payload |-> "",
             entries |-> << >>]

(* a diagnostic line in flight: its text, and whether a later command has been
   sent since the subprocess emitted the line *)
Stale(lines) == [i \in DOMAIN lines |-> [text |-> lines[i].text, stale |-> TRUE]]
Texts(lines) == [i \in DOMAIN lines |-> lines[i].text]

Init ==
    /\ calls = 0 /\ pc = "idle" /\ op = NoOp /\ prev = "NotRun"
    /\ terminated = FALSE /\ drop_steps = << >>
    /\ temp_file = NoFile /\ last_write = None
    /\ buffer = "" /\ stdout_bytes = "" /\ eof = FALSE
    /\ err_lines = << >> /\ sleeps = 0 /\ drained = Ok(<< >>)
    /\ raw = NoRaw /\ result = NoRaw
    /\ stdin_buf = << >> /\ stdin_pipe = << >> /\ stdout_pipe = ""
    /\ stderr_pipe = << >> /\ chan = << >>
    /\ monitor = "running"
    /\ sub_pc = "wait" /\ sub_err = << >> /\ sub_out = ""
    /\ answer = NoAnswer
    /\ disk = [f \in Files |-> NoTags]
    /\ stream = ""
    /\ log = NoLog

(* ------------------------------------------------------------------ *)
(* The caller's thread: entry of each public operation                 *)
(* ------------------------------------------------------------------ *)
Operation(o, r) ==
    CASE o.name = "execute_raw" -> Call(Some(o.args), r)
      [] o.name = "json_batch" -> json_batch(o.paths, o.extra, r)
      [] o.name = "json" -> json(o.path, o.extra, r)
      [] o.name = "json_tag" -> json_tag(o.path, o.tag, r)
      [] o.name = "read_tag" -> read_tag(o.T, o.path, o.tag, r)
      [] o.name = "write_tag" -> write_tag(o.path, o.tag, o.value, o.extra, r)
      [] o.name = "write_tag_binary" ->
            write_tag_binary(o.path, o.tag, TempPath, o.extra, r)
      [] o.name = "read_tag_binary" -> read_tag_binary(o.path, o.tag, r)

args == Operation(op, NoRaw).cmd.v

Outcome(r) == IF r.ok THEN "Ok" ELSE r.e.kind

(* the locals of the call that returned are gone when the next one starts; of
   the previous call only the kind of its execute_raw outcome is remembered *)
Begin(o) ==
    /\ pc \in {"idle", "done"}
    /\ calls < MaxCalls
    /\ calls' = calls + 1
    /\ op' = o
    /\ prev' = Outcome(raw)
    /\ buffer' = "" /\ stdout_bytes' = "" /\ eof' = FALSE
    /\ err_lines' = << >> /\ sleeps' = 0 /\ drained' = Ok(<< >>)
    /\ raw' = NoRaw
    /\ answer' = NoAnswer
    /\ IF Operation(o, NoRaw).cmd.some
       THEN /\ pc' = IF o.name = "write_tag_binary" THEN "stage_new" ELSE "clear"
            /\ result' = NoRaw
       ELSE /\ pc' = "done"
            /\ result' = Operation(o, NoRaw).result
    /\ UNCHANGED << terminated, stage_vars, drop_steps, stdin_buf, pipe_vars, monitor, sub_pc, sub_err, sub_out,
                    disk, stream, log >>

(* the calls the caller may make: readable files, a missing file, a command
   that provokes more error lines than the stderr pipe holds, every target
   type and tag *)
ExtraArgs == {<< >>, << "-Make" >>}
FloodArgs == [i \in 1..(StderrPipeCap + 1) |-> IF i = 1 THEN CorruptFile ELSE MissingFile]
RawArgs == {<< "a.jpg" >>, << "b.jpg" >>, << MissingFile >>, FloodArgs}
BatchPaths == SeqsUpTo(Files, MaxPaths) \cup {<< MissingFile >>}
TagRequests == {<< "a.jpg", t >> : t \in TagNames} \cup {<< MissingFile, "Make" >>}

CallExecuteRaw == \E a \in RawArgs : Begin([name |-> "execute_raw", args |-> a])
CallJsonBatch ==
    \E ps \in BatchPaths, ex \in ExtraArgs :
        Begin([name |-> "json_batch", paths |-> ps, extra |-> ex])
CallJson ==
    \E p \in {"a.jpg", MissingFile}, ex \in ExtraArgs :
        Begin([name |-> "json", path |-> p, extra |-> ex])
CallJsonTag ==
    \E r \in TagRequests : Begin([name |-> "json_tag", path |-> r[1], tag |-> r[2]])
CallReadTag ==
    \E T \in TargetTypes, r \in TagRequests :
        Begin([name |-> "read_tag", T |-> T, path |-> r[1], tag |-> r[2]])

(* writes, and the reads that follow them *)
OverwriteArgs == {<< >>, << "-overwrite_original" >>}
BinaryData == {"", "JFIF"}
ReadBack == {<< T, "a.jpg", t >> : T \in {"String", "u32"}, t \in {"Make", "ImageWidth"}}
CallWriteTag ==
    \E w \in WriteRequests, ex \in OverwriteArgs :
        Begin([name |-> "write_tag", path |-> w[1], tag |-> w[2], value |-> w[3],
               extra |-> ex])
CallWriteTagBinary ==
    \E p \in {"a.jpg", MissingFile}, data \in BinaryData, ex \in OverwriteArgs :
        Begin([name |-> "write_tag_binary", path |-> p, tag |-> "ThumbnailImage",
               data |-> data, extra |-> ex])
CallReadBack ==
    \E r \in ReadBack :
        Begin([name |-> "read_tag", T |-> r[1], path |-> r[2], tag |-> r[3]])
BinaryRequests ==
    {<< "a.jpg", "ThumbnailImage" >>, << "b.jpg", "NonExistentBinaryTag" >>,
     << MissingFile, "ThumbnailImage" >>}
CallReadTagBinary ==
    \E r \in BinaryRequests :
        Begin([name |-> "read_tag_binary", path |-> r[1], tag |-> r[2]])

(* ------------------------------------------------------------------ *)
(* write_tag_binary: staging the bytes                                 *)
(* ------------------------------------------------------------------ *)
File(bytes) == [exists |-> TRUE, bytes |-> bytes]

(* let mut temp_file = NamedTempFile::new()?; *)
StageNew ==
    /\ pc = "stage_new"
    /\ \E ok \in BOOLEAN :
          IF ok
          THEN /\ temp_file' = File("")
               /\ pc' = "stage_write"
               /\ UNCHANGED result
          ELSE /\ temp_file' = NoFile
               /\ result' = Err(IoError)
               /\ pc' = "done"
    /\ UNCHANGED << calls, op, prev, terminated, last_write, drop_steps, buffer,
                    stdout_bytes, eof, err_lines, sleeps, drained, raw, stdin_buf,
                    pipe_vars, monitor, sub_vars >>

(* variant: only the path of the temporary file is kept, the file is removed
   as soon as the bytes are written *)
StageWrite_dropped_early ==
    /\ pc = "stage_write"
    /\ \E ok \in BOOLEAN :
          IF ok
          THEN /\ temp_file' = NoFile
               /\ pc' = "clear"
               /\ UNCHANGED result
          ELSE /\ temp_file' = NoFile
               /\ result' = Err(IoError)
               /\ pc' = "done"
    /\ UNCHANGED << calls, op, prev, terminated, last_write, drop_steps, buffer,
                    stdout_bytes, eof, err_lines, sleeps, drained, raw, stdin_buf,
                    pipe_vars, monitor, sub_vars >>

(* temp_file.write_all(data.as_ref())?; temp_file.flush()?; on an error the
   function returns and the temporary file is dropped, which removes it *)
StageWrite ==
    /\ pc = "stage_write"
    /\ \E ok \in BOOLEAN :
          IF ok
          THEN /\ temp_file' = File(op.data)
               /\ pc' = "clear"
               /\ UNCHANGED result
          ELSE /\ temp_file' = NoFile
               /\ result' = Err(IoError)
               /\ pc' = "done"
    /\ UNCHANGED << calls, op, prev, terminated, last_write, drop_steps, buffer,
                    stdout_bytes, eof, err_lines, sleeps, drained, raw, stdin_buf,
                    pipe_vars, monitor, sub_vars >>

(* ------------------------------------------------------------------ *)
(* execute_raw, step by step                                           *)
(* ------------------------------------------------------------------ *)
(* Receiver::try_recv on the handoff channel *)
try_recv ==
    IF Len(chan) > 0 THEN "Ok" ELSE IF monitor = "ended" THEN "Disconnected" ELSE "Empty"

(* the framer's check after each chunk: the first marker found in the buffer
   ends the response, the payload is what precedes it *)
frame(buf) ==
    IF position(buf, ready_markers[1]) > 0
    THEN Some(SubSeq(buf, 1, position(buf, ready_markers[1]) - 1))
    ELSE IF position(buf, ready_markers[2]) > 0
    THEN Some(SubSeq(buf, 1, position(buf, ready_markers[2]) - 1))
    ELSE None

(* steps 5 and 6, and the end-of-stream branch of the framer *)
execute_raw(cmd_args, payload, at_eof, drain) ==
    IF at_eof
    THEN process_terminated(IF drain.ok THEN Texts(drain.v) ELSE << >>)
    ELSE IF ~drain.ok THEN drain
    ELSE classify(cmd_args, payload, Texts(drain.v))

Return(at_eof, drain) ==
    /\ drained' = drain
    /\ raw' = execute_raw(args, stdout_bytes, at_eof, drain)
    /\ terminated' = (terminated \/ raw' = Err(ProcessTerminated))
    /\ temp_file' = NoFile
    /\ UNCHANGED drop_steps
    /\ result' = Operation(op, raw').result
    /\ last_write' = IF op.name = "write_tag" /\ result'.ok
                     THEN Some([path |-> op.path, tag |-> op.tag, value |-> op.value])
                     ELSE IF op.name = "write_tag_binary" /\ result'.ok
                     THEN Some([path |-> op.path, tag |-> op.tag,
                                value |-> VBytes(op.data)])
                     ELSE last_write
    /\ pc' = "done"

(* 1. while self.stderr_receiver.try_recv().is_ok() {} *)
ClearRecv ==
    /\ pc = "clear" /\ try_recv = "Ok"
    /\ chan' = Tail(chan)
    /\ UNCHANGED << caller_vars, stdin_pipe, stdout_pipe, stderr_pipe, monitor, sub_vars >>

ClearDone ==
    /\ pc = "clear" /\ try_recv # "Ok"
    /\ pc' = "write"
    /\ UNCHANGED << calls, op, prev, buffer, stdout_bytes, eof, err_lines, sleeps, drained,
                    raw, terminated, stage_vars, drop_steps, result, stdin_buf, pipe_vars, monitor, sub_vars >>

(* writeln!(self.stdin, "{}", arg): the bytes of arg and a line feed; what
   the reader of the stream takes as lines is cut at every line feed *)
RECURSIVE writeln(_)
writeln(arg) ==
    IF position(arg, "\n") = 0 THEN << arg >>
    ELSE << SubSeq(arg, 1, position(arg, "\n") - 1) >>
         \o writeln(SubSeq(arg, position(arg, "\n") + 1, Len(arg)))

(* 2., 3. the arguments and "-execute", one per line, into the BufWriter *)
WriteArgs ==
    /\ pc = "write"
    /\ stdin_buf' = stdin_buf \o Flatten([i \in DOMAIN args |-> writeln(args[i])])
                              \o << "-execute" >>
    /\ pc' = "flush"
    /\ UNCHANGED << calls, op, prev, buffer, stdout_bytes, eof, err_lines, sleeps, drained,
                    raw, terminated, stage_vars, drop_steps, result, pipe_vars, monitor, sub_vars >>

(* variant: a failed write is swallowed and the call returns an empty payload *)
Flush_swallow ==
    /\ pc = "flush"
    /\ IF sub_pc = "dead"
       THEN /\ raw' = Ok("")
            /\ result' = Operation(op, raw').result
            /\ pc' = "done"
            /\ temp_file' = NoFile
            /\ UNCHANGED << buffer, stdin_buf, stdin_pipe, stderr_pipe, chan >>
       ELSE /\ stdin_pipe' = stdin_pipe \o stdin_buf
            /\ stdin_buf' = << >>
            /\ buffer' = ""
            /\ pc' = "read"
            /\ stderr_pipe' = Stale(stderr_pipe)
            /\ chan' = Stale(chan)
            /\ UNCHANGED << raw, result, temp_file >>
    /\ UNCHANGED << calls, op, prev, terminated, last_write, drop_steps, stdout_bytes, eof, err_lines, sleeps,
                    drained, stdout_pipe, monitor, sub_vars >>

(* variant: the call returns as soon as the command is written *)
Flush_no_wait ==
    /\ pc = "flush"
    /\ IF sub_pc = "dead"
       THEN /\ raw' = Err(IoError)
            /\ UNCHANGED << stdin_buf, stdin_pipe, stderr_pipe, chan >>
       ELSE /\ stdin_pipe' = stdin_pipe \o stdin_buf
            /\ stdin_buf' = << >>
            /\ stderr_pipe' = Stale(stderr_pipe)
            /\ chan' = Stale(chan)
            /\ raw' = Ok("")
    /\ result' = Operation(op, raw').result
    /\ pc' = "done"
    /\ temp_file' = NoFile
    /\ UNCHANGED << calls, op, prev, terminated, last_write, drop_steps, buffer, stdout_bytes, eof,
                    err_lines, sleeps, drained, stdout_pipe, monitor, sub_vars >>

(* self.stdin.flush()?: fails with a broken pipe once the subprocess is gone;
   the lines still in flight belong to earlier commands from here on *)
Flush ==
    /\ pc = "flush"
    /\ IF sub_pc = "dead"
       THEN /\ raw' = Err(IoError)
            /\ result' = Operation(op, raw').result
            /\ pc' = "done"
            /\ temp_file' = NoFile
            /\ UNCHANGED << buffer, stdin_buf, stdin_pipe, stderr_pipe, chan >>
       ELSE /\ stdin_pipe' = stdin_pipe \o stdin_buf
            /\ stdin_buf' = << >>
            /\ buffer' = ""
            /\ pc' = "read"
            /\ stderr_pipe' = Stale(stderr_pipe)
            /\ chan' = Stale(chan)
            /\ UNCHANGED << raw, result, temp_file >>
    /\ UNCHANGED << calls, op, prev, terminated, last_write, drop_steps, stdout_bytes, eof, err_lines, sleeps,
                    drained, stdout_pipe, monitor, sub_vars >>

(* 4. read_response_until_ready: one read of up to CHUNK_SIZE bytes, then the
   marker check *)
ReadSizes ==
    LET avail == IF Len(stdout_pipe) < CHUNK_SIZE THEN Len(stdout_pipe) ELSE CHUNK_SIZE
    IN  {n \in 1..avail : avail - n <= MaxShortRead}

ReadChunk ==
    /\ pc = "read" /\ Len(stdout_pipe) > 0
    /\ \E bytes_read \in ReadSizes :
          LET grown == buffer \o SubSeq(stdout_pipe, 1, bytes_read)
          IN  /\ stdout_pipe' = SubSeq(stdout_pipe, bytes_read + 1, Len(stdout_pipe))
              /\ IF frame(grown).some
                 THEN /\ stdout_bytes' = frame(grown).v
                      /\ buffer' = ""
                      /\ eof' = FALSE
                      /\ err_lines' = << >>
                      /\ sleeps' = 0
                      /\ pc' = "drain1"
                 ELSE /\ buffer' = grown
                      /\ UNCHANGED << stdout_bytes, eof, err_lines, sleeps, pc >>
    /\ UNCHANGED << calls, op, prev, drained, raw, terminated, stage_vars, drop_steps, result, stdin_buf,
                    stdin_pipe, stderr_pipe, chan, monitor, sub_vars >>

(* variant: at the end of the stream the bytes read so far are the payload *)
ReadEof_partial_ok ==
    /\ pc = "read" /\ Len(stdout_pipe) = 0 /\ sub_pc = "dead"
    /\ stdout_bytes' = buffer
    /\ eof' = FALSE
    /\ err_lines' = << >>
    /\ sleeps' = 0
    /\ buffer' = ""
    /\ pc' = "drain1"
    /\ UNCHANGED << calls, op, prev, drained, raw, terminated, stage_vars, drop_steps, result, stdin_buf,
                    pipe_vars, monitor, sub_vars >>

(* bytes_read == 0: the stream is closed and empty *)
ReadEof ==
    /\ pc = "read" /\ Len(stdout_pipe) = 0 /\ sub_pc = "dead"
    /\ eof' = TRUE
    /\ err_lines' = << >>
    /\ sleeps' = 0
    /\ buffer' = ""
    /\ pc' = "drain1"
    /\ UNCHANGED << calls, op, prev, stdout_bytes, drained, raw, terminated, stage_vars, drop_steps, result, stdin_buf,
                    pipe_vars, monitor, sub_vars >>

(* ------------------------------------------------------------------ *)
(* drain_stderr                                                        *)
(* ------------------------------------------------------------------ *)
drain_frame == << calls, op, prev, buffer, stdout_bytes, eof, stdin_buf,
                  stdin_pipe, stdout_pipe, stderr_pipe, monitor, sub_vars >>

(* first loop: whatever is immediately available *)
Drain1Recv ==
    /\ pc = "drain1" /\ try_recv = "Ok"
    /\ err_lines' = Append(err_lines, Head(chan))
    /\ chan' = Tail(chan)
    /\ UNCHANGED << pc, sleeps, drained, raw, terminated, stage_vars, drop_steps, result, drain_frame >>

Drain1Empty ==
    /\ pc = "drain1" /\ try_recv = "Empty"
    /\ pc' = "drain2"
    /\ UNCHANGED << err_lines, sleeps, drained, raw, terminated, stage_vars, drop_steps, result, chan, drain_frame >>

(* variant: a disconnected channel ends the drain with what was captured *)
Drain1Disconnected_tolerant ==
    /\ pc = "drain1" /\ try_recv = "Disconnected"
    /\ Return(eof, Ok(err_lines))
    /\ UNCHANGED << err_lines, sleeps, chan, drain_frame >>

Drain1Disconnected ==
    /\ pc = "drain1" /\ try_recv = "Disconnected"
    /\ Return(eof, Err(StderrDisconnected))
    /\ UNCHANGED << err_lines, sleeps, chan, drain_frame >>

(* second loop: start_time.elapsed() is at least the time slept and otherwise
   unknown, so the loop may find the timeout passed at any iteration and must
   find it passed once the sleeps add up to it *)
MayPoll == sleeps * STDERR_POLL_INTERVAL < STDERR_POLL_TIMEOUT

(* variant: the poll loop has no deadline, it ends only after a line *)
Drain2Timeout_no_deadline ==
    /\ pc = "drain2" /\ ~MayPoll /\ Len(err_lines) > 0
    /\ Return(eof, Ok(err_lines))
    /\ UNCHANGED << err_lines, sleeps, chan, drain_frame >>

Drain2Timeout ==
    /\ pc = "drain2"
    /\ Return(eof, Ok(err_lines))
    /\ UNCHANGED << err_lines, sleeps, chan, drain_frame >>

Drain2Recv ==
    /\ pc = "drain2" /\ MayPoll /\ try_recv = "Ok"
    /\ err_lines' = Append(err_lines, Head(chan))
    /\ chan' = Tail(chan)
    /\ UNCHANGED << pc, sleeps, drained, raw, terminated, stage_vars, drop_steps, result, drain_frame >>

Drain2Empty ==
    /\ pc = "drain2" /\ MayPoll /\ try_recv = "Empty"
    /\ IF Len(err_lines) > 0
       THEN /\ Return(eof, Ok(err_lines))
            /\ UNCHANGED sleeps
       ELSE /\ sleeps' = sleeps + 1
            /\ UNCHANGED << pc, drained, raw, terminated, stage_vars, drop_steps, result >>
    /\ UNCHANGED << err_lines, chan, drain_frame >>

Drain2Disconnected ==
    /\ pc = "drain2" /\ MayPoll /\ try_recv = "Disconnected"
    /\ Return(eof, IF Len(err_lines) = 0 THEN Err(StderrDisconnected) ELSE Ok(err_lines))
    /\ UNCHANGED << err_lines, sleeps, chan, drain_frame >>

(* ------------------------------------------------------------------ *)
(* The stderr monitor thread                                           *)
(* ------------------------------------------------------------------ *)
(* variant: the handoff is a rendezvous, the send blocks until the session
   is receiving *)
MonitorForward_rendezvous ==
    /\ monitor = "running" /\ Len(stderr_pipe) > 0
    /\ pc \in {"clear", "drain1", "drain2"}
    /\ chan' = Append(chan, Head(stderr_pipe))
    /\ stderr_pipe' = Tail(stderr_pipe)
    /\ log' = Logged(log, "sent", Head(stderr_pipe).text)
    /\ UNCHANGED << caller_vars, stdin_pipe, stdout_pipe, monitor,
                    sub_pc, sub_err, sub_out, answer, disk, stream >>

(* BufRead::lines yields an Err item for a line that is not valid UTF-8 *)
from_utf8(text) == IF contains(text, BadByte) THEN Err(IoError) ELSE Ok(text)

(* the Receiver is a field of the session: it is gone once the session has
   been dropped *)
ReceiverGone == pc = "dropped"

(* variant: the warnings are logged by the thread and not sent *)
MonitorForward_filters ==
    /\ monitor = "running" /\ Len(stderr_pipe) > 0
    /\ stderr_pipe' = Tail(stderr_pipe)
    /\ IF contains(Head(stderr_pipe).text, "Warning:")
       THEN UNCHANGED << chan, log >>
       ELSE /\ chan' = Append(chan, Head(stderr_pipe))
            /\ log' = Logged(log, "sent", Head(stderr_pipe).text)
    /\ UNCHANGED << caller_vars, stdin_pipe, stdout_pipe, monitor,
                    sub_pc, sub_err, sub_out, answer, disk, stream >>

(* one turn of the loop: the next line is sent, and tx.send on the unbounded
   channel never blocks; the loop ends, and the thread with it, when the item
   is an Err (map_while) or the send fails; the reader is then dropped and
   the pipe is closed at this end *)
MonitorForward ==
    /\ monitor = "running" /\ Len(stderr_pipe) > 0
    /\ IF from_utf8(Head(stderr_pipe).text).ok /\ ~ReceiverGone
       THEN /\ chan' = Append(chan, Head(stderr_pipe))
            /\ stderr_pipe' = Tail(stderr_pipe)
            /\ log' = Logged(log, "sent", Head(stderr_pipe).text)
            /\ UNCHANGED monitor
       ELSE /\ monitor' = "ended"
            /\ stderr_pipe' = << >>
            /\ UNCHANGED << chan, log >>
    /\ UNCHANGED << caller_vars, stdin_pipe, stdout_pipe,
                    sub_pc, sub_err, sub_out, answer, disk, stream >>

(* variant: the end of the stream is read again, the loop goes on *)
MonitorEof_retries ==
    /\ monitor = "running" /\ Len(stderr_pipe) = 0 /\ sub_pc = "dead"
    /\ UNCHANGED vars

(* lines() has no further item when the stream has ended: every write end of
   the pipe is closed *)
MonitorEof ==
    /\ monitor = "running" /\ Len(stderr_pipe) = 0 /\ sub_pc = "dead"
    /\ monitor' = "ended"
    /\ UNCHANGED << caller_vars, pipe_vars, sub_vars >>

(* ------------------------------------------------------------------ *)
(* The subprocess                                                      *)
(* ------------------------------------------------------------------ *)
(* the arguments that end the stay-open mode *)
ShutdownArgs == << "-stay_open", "False" >>

FirstExecute == SetMin({i \in DOMAIN stdin_pipe : stdin_pipe[i] = "-execute"})

(* the arguments of a command that assign a value to a tag *)
Assignments(cmd) == SelectSeq(cmd, LAMBDA a : IsOption(a) /\ contains(a, "="))

(* what one assignment asks for: the tag, and the text to store, which
   "-TAG<=FILE" takes from a file that must exist *)
Assigned(a) ==
    LET from_file == position(a, "<=") > 0
        eq == IF from_file THEN position(a, "<=") ELSE position(a, "=")
        rhs == SubSeq(a, eq + (IF from_file THEN 2 ELSE 1), Len(a))
    IN  [tag |-> SubSeq(a, 2, eq - 1),
         text |-> IF ~from_file THEN Some(rhs)
                  ELSE IF temp_file.exists /\ rhs = TempPath THEN Some(temp_file.bytes)
                  ELSE None]

Count(n) == "    " \o ToString(n) \o " image files updated\n"

(* a write command: the value is stored in every readable file that is named,
   unless the tag cannot be written or the value cannot be read, which the
   subprocess reports as warnings *)
SubWrite ==
    /\ sub_pc = "wait" /\ "-execute" \in Range(stdin_pipe)
    /\ Assignments(SubSeq(stdin_pipe, 1, FirstExecute - 1)) # << >>
    /\ LET cmd == SubSeq(stdin_pipe, 1, FirstExecute - 1)
           a == Assigned(Assignments(cmd)[1])
           targets == {f \in Range(PathArgs(cmd)) : f \in Files}
           refused == IF ~a.text.some
                      THEN << "Warning: Error opening file", "Nothing to do." >>
                      ELSE IF a.tag \notin WritableTags \cup BinaryTags
                      THEN << "Warning: Sorry, " \o a.tag \o " is not writable",
                              "Nothing to do." >>
                      ELSE << >>
       IN  \E pad \in BOOLEAN :
              LET err == IF refused # << >> THEN refused ELSE ErrLines(cmd, pad)
                  payload == IF refused # << >> \/ targets = {} THEN ""
                             ELSE Count(Cardinality(targets))
              IN  /\ answer' = [taken |-> TRUE, args |-> cmd, err |-> err,
                                payload |-> payload, entries |-> << >>]
                  /\ sub_err' = [i \in DOMAIN err |-> [text |-> err[i], stale |-> FALSE]]
                  /\ sub_out' = payload \o ready_markers[1]
                  /\ disk' = [f \in Files |->
                                IF f \in targets /\ refused = << >>
                                THEN [t \in DOMAIN disk[f] \cup {a.tag} |->
                                        IF t = a.tag THEN a.text.v ELSE disk[f][t]]
                                ELSE disk[f]]
    /\ stdin_pipe' = SubSeq(stdin_pipe, FirstExecute + 1, Len(stdin_pipe))
    /\ sub_pc' = "run"
    /\ UNCHANGED << caller_vars, stdout_pipe, stderr_pipe, chan, monitor, stream, log >>

SubRead ==
    /\ sub_pc = "wait" /\ "-execute" \in Range(stdin_pipe)
    /\ SubSeq(stdin_pipe, 1, FirstExecute - 1) # ShutdownArgs
    /\ Assignments(SubSeq(stdin_pipe, 1, FirstExecute - 1)) = << >>
    /\ LET cmd == SubSeq(stdin_pipe, 1, FirstExecute - 1)
       IN  \E r \in Responses(cmd) :
              /\ answer' = [taken |-> TRUE, args |-> cmd, err |-> r.err,
                            payload |-> r.payload, entries |-> r.entries]
              /\ sub_err' = [i \in DOMAIN r.err |-> [text |-> r.err[i], stale |-> FALSE]]
              /\ sub_out' = r.payload \o ready_markers[1]
    /\ stdin_pipe' = SubSeq(stdin_pipe, FirstExecute + 1, Len(stdin_pipe))
    /\ sub_pc' = "run"
    /\ UNCHANGED << caller_vars, stdout_pipe, stderr_pipe, chan, monitor, disk, stream, log >>

(* diagnostics are written while the files are processed; the write blocks
   while the pipe is full *)
SubWriteErr ==
    /\ sub_pc = "run" /\ Len(sub_err) > 0
    /\ IF monitor = "ended"
       THEN \* nobody reads the pipe: the write fails, or the signal of the
            \* broken pipe ends the subprocess
            /\ \E sigpipe \in BOOLEAN :
                  IF sigpipe
                  THEN sub_pc' = "dead" /\ sub_err' = << >> /\ sub_out' = ""
                  ELSE sub_err' = Tail(sub_err) /\ UNCHANGED << sub_pc, sub_out >>
            /\ UNCHANGED << stderr_pipe, log >>
       ELSE /\ Len(stderr_pipe) < StderrPipeCap
            /\ stderr_pipe' = Append(stderr_pipe, Head(sub_err))
            /\ log' = Logged(log, "written", Head(sub_err).text)
            /\ sub_err' = Tail(sub_err)
            /\ UNCHANGED << sub_pc, sub_out >>
    /\ UNCHANGED << caller_vars, stdin_pipe, stdout_pipe, chan, monitor,
                    answer, disk, stream >>

(* then the output and the completion marker *)
SubWriteOut ==
    /\ sub_pc = "run" /\ Len(sub_err) = 0
    /\ stdout_pipe' = stdout_pipe \o sub_out
    /\ sub_out' = ""
    /\ sub_pc' = "wait"
    /\ UNCHANGED << caller_vars, stdin_pipe, stderr_pipe, chan, monitor,
                    sub_err, answer, disk, stream, log >>

(* the subprocess dies: its ends of the pipes close *)
SubExit ==
    /\ sub_pc \in {"wait", "run"}
    /\ sub_pc' = "dead"
    /\ sub_err' = << >>
    /\ sub_out' = ""
    /\ UNCHANGED << caller_vars, pipe_vars, monitor, answer, disk, stream, log >>

Next ==
    \/ CallExecuteRaw \/ CallJsonBatch \/ CallJson \/ CallJsonTag \/ CallReadTag
    \/ ClearRecv \/ ClearDone \/ WriteArgs \/ Flush \/ ReadChunk \/ ReadEof
    \/ Drain1Recv \/ Drain1Empty \/ Drain1Disconnected
    \/ Drain2Timeout \/ Drain2Recv \/ Drain2Empty \/ Drain2Disconnected
    \/ MonitorForward \/ MonitorEof
    \/ SubRead \/ SubWriteErr \/ SubWriteOut \/ SubExit

Spec == Init /\ [][Next]_vars

(* The session driven through execute_raw alone, with the scheduling the
   threads and the subprocess are given: the caller's blocked read returns
   when bytes or end-of-stream are there, the monitor thread runs, and the
   subprocess keeps working while it lives.  Its death is not forced. *)
LiveNext ==
    \/ CallExecuteRaw
    \/ ClearRecv \/ ClearDone \/ WriteArgs \/ Flush \/ ReadChunk \/ ReadEof
    \/ Drain1Recv \/ Drain1Empty \/ Drain1Disconnected
    \/ Drain2Timeout \/ Drain2Recv \/ Drain2Empty \/ Drain2Disconnected
    \/ MonitorForward \/ MonitorEof
    \/ SubRead \/ SubWriteErr \/ SubWriteOut \/ SubExit

LiveSpec ==
    /\ Init /\ [][LiveNext]_vars
    /\ WF_vars(ReadChunk) /\ WF_vars(ReadEof)
    /\ WF_vars(MonitorForward) /\ WF_vars(MonitorEof)
    /\ WF_vars(SubRead) /\ WF_vars(SubWriteErr) /\ WF_vars(SubWriteOut)

(* The same session with the caller's thread running while it drains: the
   loops of drain_stderr do not block (try_recv, a sleep of fixed length), so
   the thread takes its next step. *)
DrainSpec ==
    /\ Init /\ [][LiveNext]_vars
    /\ WF_vars(Drain1Recv \/ Drain1Empty \/ Drain1Disconnected)
    /\ WF_vars(Drain2Timeout \/ Drain2Recv \/ Drain2Empty \/ Drain2Disconnected)

(* ------------------------------------------------------------------ *)
(* with_executable: the start of the session                           *)
(* ------------------------------------------------------------------ *)
(* before Command::spawn: no subprocess, no monitor thread *)
StartInit ==
    /\ calls = 0 /\ pc = "spawn" /\ op = NoOp /\ prev = "NotRun"
    /\ terminated = FALSE /\ drop_steps = << >>
    /\ temp_file = NoFile /\ last_write = None
    /\ buffer = "" /\ stdout_bytes = "" /\ eof = FALSE
    /\ err_lines = << >> /\ sleeps = 0 /\ drained = Ok(<< >>)
    /\ raw = NoRaw /\ result = NoRaw
    /\ stdin_buf = << >> /\ stdin_pipe = << >> /\ stdout_pipe = ""
    /\ stderr_pipe = << >> /\ chan = << >>
    /\ monitor = "none"
    /\ sub_pc = "none" /\ sub_err = << >> /\ sub_out = ""
    /\ answer = NoAnswer
    /\ disk = [f \in Files |-> NoTags]
    /\ stream = ""
    /\ log = NoLog

start_frame == << calls, op, prev, terminated, stage_vars, drop_steps, buffer, stdout_bytes,
                 eof, err_lines, sleeps, drained, raw, stdin_buf, pipe_vars,
                 sub_err, sub_out, answer, disk, stream, log >>

(* Command::new(..).spawn().map_err(ExifToolError::ExifToolNotFound)? *)
Spawn ==
    /\ pc = "spawn"
    /\ \E ok \in BOOLEAN :
          IF ok
          THEN /\ sub_pc' = "wait"
               /\ pc' = "take_stdin"
               /\ UNCHANGED result
          ELSE /\ result' = Err(ExifToolNotFound)
               /\ pc' = "failed"
               /\ UNCHANGED sub_pc
    /\ UNCHANGED << start_frame, monitor >>

(* child.stdin.take(), child.stdout.take(), child.stderr.take(), each with
   .ok_or_else(|| io::Error::other(..))? *)
TakeOrder == << "take_stdin", "take_stdout", "take_stderr", "spawn_monitor" >>
TakeStream ==
    /\ \E i \in 1..3 :
          /\ pc = TakeOrder[i]
          /\ \E ok \in BOOLEAN :
                IF ok
                THEN /\ pc' = TakeOrder[i + 1]
                     /\ UNCHANGED result
                ELSE /\ result' = Err(IoError)
                     /\ pc' = "failed"
    /\ UNCHANGED << start_frame, monitor, sub_pc >>

(* variant: the thread that reads stderr is started by the first command *)
SpawnMonitor_lazy ==
    /\ pc = "spawn_monitor"
    /\ pc' = "construct"
    /\ UNCHANGED << start_frame, monitor, result, sub_pc >>

(* mpsc::channel(); thread::spawn(move || ..) *)
SpawnMonitor ==
    /\ pc = "spawn_monitor"
    /\ monitor' = "running"
    /\ pc' = "construct"
    /\ UNCHANGED << start_frame, result, sub_pc >>

(* Ok(Self { stdin, stdout, stderr_receiver, child }) *)
ReturnSession ==
    /\ pc = "construct"
    /\ pc' = "idle"
    /\ UNCHANGED << start_frame, monitor, result, sub_pc >>

StartNext == Spawn \/ TakeStream \/ SpawnMonitor \/ ReturnSession \/ LiveNext

(* A session from its construction on, driven through execute_raw. *)
StartSpec == StartInit /\ [][StartNext]_vars

(* ------------------------------------------------------------------ *)
(* The framer on its own: stdout is scripted                           *)
(* ------------------------------------------------------------------ *)
(* what the script writes to stdout, whatever is asked: responses ended by
   either marker, several of them, an empty one, and output that stops
   without a marker or inside one *)
FramerStreams ==
    {"", "A", "A{ready}", "{ready}\n", "A{ready}\n", "A{ready}\r\n",
     "A{ready}\nB{ready}\n", "A{ready}\r\nB{ready}\r\n", "A{ready}\r\nB{ready}\n",
     "A{ready}\nB"}
FramerLines == {<< >>, << [text |-> "Error: Not a valid JPG - c.jpg", stale |-> FALSE] >>}

FramerInit ==
    /\ calls = 0 /\ pc = "idle" /\ op = NoOp /\ prev = "NotRun"
    /\ terminated = FALSE /\ drop_steps = << >>
    /\ temp_file = NoFile /\ last_write = None
    /\ buffer = "" /\ stdout_bytes = "" /\ eof = FALSE
    /\ err_lines = << >> /\ sleeps = 0 /\ drained = Ok(<< >>)
    /\ raw = NoRaw /\ result = NoRaw
    /\ stdin_buf = << >> /\ stdin_pipe = << >> /\ stdout_pipe = ""
    /\ stderr_pipe = << >> /\ chan = << >>
    /\ monitor = "running"
    /\ sub_pc = "run" /\ sub_err \in FramerLines /\ sub_out \in FramerStreams
    /\ answer = NoAnswer
    /\ disk = [f \in Files |-> NoTags]
    /\ stream = sub_out
    /\ log = NoLog

FramerCall == Begin([name |-> "execute_raw", args |-> << "a.jpg" >>])

(* a write(2) that takes only a part of what is left: the bytes reach the
   reader in pieces cut at any place *)
ScriptWrite ==
    /\ sub_pc = "run" /\ Len(sub_err) = 0
    /\ \E n \in 1..(Len(sub_out) - 1) :
          /\ stdout_pipe' = stdout_pipe \o SubSeq(sub_out, 1, n)
          /\ sub_out' = SubSeq(sub_out, n + 1, Len(sub_out))
    /\ UNCHANGED << caller_vars, stdin_pipe, stderr_pipe, chan, monitor,
                    sub_pc, sub_err, answer, disk, stream, log >>

(* the script ends when all its bytes are written *)
ScriptExit == sub_pc = "wait" /\ SubExit

FramerNext ==
    \/ FramerCall
    \/ ClearRecv \/ ClearDone \/ WriteArgs \/ Flush \/ ReadChunk \/ ReadEof
    \/ Drain1Recv \/ Drain1Empty \/ Drain1Disconnected
    \/ Drain2Timeout \/ Drain2Recv \/ Drain2Empty \/ Drain2Disconnected
    \/ MonitorForward \/ MonitorEof
    \/ SubWriteErr \/ SubWriteOut \/ ScriptWrite \/ ScriptExit

FramerSpec == FramerInit /\ [][FramerNext]_vars

(* ------------------------------------------------------------------ *)
(* execute_raw with arguments of every shape                           *)
(* ------------------------------------------------------------------ *)
(* argument lists a caller may pass: a path, an option and a path, and an
   assignment whose value has two lines *)
LineArgs ==
    {<< "a.jpg" >>, << "-Make", "a.jpg" >>, << "-Make=x\nb.jpg", "a.jpg" >>}
CallRawLines == \E a \in LineArgs : Begin([name |-> "execute_raw", args |-> a])

LineNext ==
    \/ CallRawLines
    \/ ClearRecv \/ ClearDone \/ WriteArgs \/ Flush \/ ReadChunk \/ ReadEof
    \/ Drain1Recv \/ Drain1Empty \/ Drain1Disconnected
    \/ Drain2Timeout \/ Drain2Recv \/ Drain2Empty \/ Drain2Disconnected
    \/ MonitorForward \/ MonitorEof
    \/ SubRead \/ SubWrite \/ SubWriteErr \/ SubWriteOut \/ SubExit

LineSpec == Init /\ [][LineNext]_vars

(* ------------------------------------------------------------------ *)
(* parse_fn::u32::permissive applied to one value                      *)
(* ------------------------------------------------------------------ *)
(* the values a deserializer may hand over: every integer of either integer
   type, floats around both ends of the range, texts, and the other types *)
DeTexts == {"12", "+7", "12 mm", " 3 x", "-3", "abc", "", "99", "1.5"}
DeValues ==
    {DeI64(n) : n \in I64_MIN..I64_MAX} \cup {DeU64(n) : n \in 0..U64_MAX}
    \cup {DeF64(h) : h \in -3..(2 * U32_MAX + 3)}
    \cup {DeStr(s) : s \in DeTexts} \cup {DeBool, DeNone}

ParseInit ==
    /\ calls = 0 /\ pc = "idle" /\ prev = "NotRun"
    /\ op \in {[name |-> "permissive", value |-> d] : d \in DeValues}
    /\ terminated = FALSE /\ drop_steps = << >>
    /\ temp_file = NoFile /\ last_write = None
    /\ buffer = "" /\ stdout_bytes = "" /\ eof = FALSE
    /\ err_lines = << >> /\ sleeps = 0 /\ drained = Ok(<< >>)
    /\ raw = NoRaw /\ result = NoRaw
    /\ stdin_buf = << >> /\ stdin_pipe = << >> /\ stdout_pipe = ""
    /\ stderr_pipe = << >> /\ chan = << >>
    /\ monitor = "none"
    /\ sub_pc = "none" /\ sub_err = << >> /\ sub_out = ""
    /\ answer = NoAnswer
    /\ disk = [f \in Files |-> NoTags]
    /\ stream = ""
    /\ log = NoLog

Deserialize ==
    /\ pc = "idle" /\ op.name = "permissive"
    /\ result' = Ok(permissive(op.value))
    /\ pc' = "done"
    /\ UNCHANGED << calls, op, prev, terminated, stage_vars, drop_steps, buffer,
                    stdout_bytes, eof, err_lines, sleeps, drained, raw, stdin_buf,
                    pipe_vars, monitor, sub_vars >>

ParseSpec == ParseInit /\ [][Deserialize]_vars

(* ------------------------------------------------------------------ *)
(* json with extra arguments that name a tag, or a second file         *)
(* ------------------------------------------------------------------ *)
JsonExtraArgs == {<< "-Make" >>, << "b.jpg" >>}
CallJsonExtra ==
    \E ex \in JsonExtraArgs : Begin([name |-> "json", path |-> "a.jpg", extra |-> ex])

JsonNext == CallJsonExtra \/ LiveNext

JsonSpec == Init /\ [][JsonNext]_vars

(* ------------------------------------------------------------------ *)
(* The diagnostic stream followed from the subprocess to the session   *)
(* ------------------------------------------------------------------ *)
(* commands with no diagnostic, with a warning and an error, with two errors
   in either order, and with a warning that is not UTF-8 followed by an error *)
MonitorArgs ==
    {<< "a.jpg" >>, << "b.jpg", MissingFile >>, << GarbledFile, MissingFile >>,
     << CorruptFile, MissingFile >>, << MissingFile, CorruptFile >>}
CallRawMonitor == \E a \in MonitorArgs : Begin([name |-> "execute_raw", args |-> a])

MonitorInit ==
    /\ calls = 0 /\ pc = "idle" /\ op = NoOp /\ prev = "NotRun"
    /\ terminated = FALSE /\ drop_steps = << >>
    /\ temp_file = NoFile /\ last_write = None
    /\ buffer = "" /\ stdout_bytes = "" /\ eof = FALSE
    /\ err_lines = << >> /\ sleeps = 0 /\ drained = Ok(<< >>)
    /\ raw = NoRaw /\ result = NoRaw
    /\ stdin_buf = << >> /\ stdin_pipe = << >> /\ stdout_pipe = ""
    /\ stderr_pipe = << >> /\ chan = << >>
    /\ monitor = "running"
    /\ sub_pc = "wait" /\ sub_err = << >> /\ sub_out = ""
    /\ answer = NoAnswer
    /\ disk = [f \in Files |-> NoTags]
    /\ stream = ""
    /\ log = EmptyLog

MonitorNext ==
    \/ CallRawMonitor
    \/ ClearRecv \/ ClearDone \/ WriteArgs \/ Flush \/ ReadChunk \/ ReadEof
    \/ Drain1Recv \/ Drain1Empty \/ Drain1Disconnected
    \/ Drain2Timeout \/ Drain2Recv \/ Drain2Empty \/ Drain2Disconnected
    \/ MonitorForward \/ MonitorEof
    \/ SubRead \/ SubWriteErr \/ SubWriteOut \/ SubExit

MonitorSpec == MonitorInit /\ [][MonitorNext]_vars

(* ------------------------------------------------------------------ *)
(* Drop: the end of the session                                        *)
(* ------------------------------------------------------------------ *)
Step(name, ok) == [step |-> name, ok |-> ok]

(* the session goes out of scope between two operations *)
Drop ==
    /\ pc \in {"idle", "done"}
    /\ pc' = "drop_close"
    /\ UNCHANGED << calls, op, prev, terminated, stage_vars, drop_steps, buffer, stdout_bytes, eof,
                    err_lines, sleeps, drained, raw, result, stdin_buf,
                    pipe_vars, monitor, sub_vars >>

(* variant: the error of close is propagated and ends the drop *)
DropClose_propagates ==
    /\ pc = "drop_close"
    /\ sub_pc = "dead" \/ Len(stdin_pipe) + Len(stdin_buf) + 3 <= StdinPipeCap
    /\ IF sub_pc = "dead"
       THEN /\ stdin_buf' = stdin_buf \o ShutdownArgs \o << "-execute" >>
            /\ drop_steps' = Append(drop_steps, Step("close", FALSE))
            /\ pc' = "dropped"
            /\ UNCHANGED stdin_pipe
       ELSE /\ stdin_pipe' = stdin_pipe \o stdin_buf \o ShutdownArgs \o << "-execute" >>
            /\ stdin_buf' = << >>
            /\ drop_steps' = Append(drop_steps, Step("close", TRUE))
            /\ pc' = "drop_kill"
    /\ UNCHANGED << calls, op, prev, terminated, stage_vars, buffer, stdout_bytes, eof,
                    err_lines, sleeps, drained, raw, result,
                    stdout_pipe, stderr_pipe, chan, monitor, sub_vars >>

(* 1. self.close(): the three lines go to the buffered writer and are flushed;
   the flush blocks while the pipe has no room and fails once the subprocess
   is gone; its error is logged *)
DropClose ==
    /\ pc = "drop_close"
    /\ sub_pc = "dead" \/ Len(stdin_pipe) + Len(stdin_buf) + 3 <= StdinPipeCap
    /\ IF sub_pc = "dead"
       THEN /\ stdin_buf' = stdin_buf \o ShutdownArgs \o << "-execute" >>
            /\ drop_steps' = Append(drop_steps, Step("close", FALSE))
            /\ UNCHANGED stdin_pipe
       ELSE /\ stdin_pipe' = stdin_pipe \o stdin_buf \o ShutdownArgs \o << "-execute" >>
            /\ stdin_buf' = << >>
            /\ drop_steps' = Append(drop_steps, Step("close", TRUE))
    /\ pc' = "drop_kill"
    /\ UNCHANGED << calls, op, prev, terminated, stage_vars, buffer, stdout_bytes, eof,
                    err_lines, sleeps, drained, raw, result,
                    stdout_pipe, stderr_pipe, chan, monitor, sub_vars >>

(* variant: the subprocess is left to exit by itself, no signal is sent *)
DropKill_no_signal ==
    /\ pc = "drop_kill"
    /\ drop_steps' = Append(drop_steps, Step("kill", FALSE))
    /\ pc' = "drop_wait"
    /\ UNCHANGED << calls, op, prev, terminated, stage_vars, buffer, stdout_bytes, eof,
                    err_lines, sleeps, drained, raw, result, stdin_buf,
                    pipe_vars, monitor, sub_vars >>

(* 2. self.child.kill(): the signal is sent to a subprocess that still runs;
   on one that has exited already the call succeeds or fails, depending on
   the platform; its error is logged *)
DropKill ==
    /\ pc = "drop_kill"
    /\ \E ok \in (IF sub_pc = "dead" THEN BOOLEAN ELSE {TRUE}) :
          drop_steps' = Append(drop_steps, Step("kill", ok))
    /\ pc' = "drop_wait"
    /\ UNCHANGED << calls, op, prev, terminated, stage_vars, buffer, stdout_bytes, eof,
                    err_lines, sleeps, drained, raw, result, stdin_buf,
                    pipe_vars, monitor, sub_vars >>

(* 3. self.child.wait(): returns once the subprocess has exited *)
DropWait ==
    /\ pc = "drop_wait" /\ sub_pc = "dead"
    /\ drop_steps' = Append(drop_steps, Step("wait", TRUE))
    /\ pc' = "dropped"
    /\ UNCHANGED << calls, op, prev, terminated, stage_vars, buffer, stdout_bytes, eof,
                    err_lines, sleeps, drained, raw, result, stdin_buf,
                    pipe_vars, monitor, sub_vars >>

(* the subprocess reads the command that ends the stay-open mode and exits *)
SubShutdown ==
    /\ sub_pc = "wait" /\ "-execute" \in Range(stdin_pipe)
    /\ SubSeq(stdin_pipe, 1, FirstExecute - 1) = ShutdownArgs
    /\ stdin_pipe' = SubSeq(stdin_pipe, FirstExecute + 1, Len(stdin_pipe))
    /\ sub_pc' = "dead"
    /\ sub_err' = << >>
    /\ sub_out' = ""
    /\ UNCHANGED << caller_vars, stdout_pipe, stderr_pipe, chan, monitor, answer, disk, stream, log >>

(* the kill signal was sent to the running subprocess *)
KillSent ==
    \E i \in DOMAIN drop_steps : drop_steps[i] = Step("kill", TRUE)

(* the signal cannot be caught or ignored: it ends the subprocess *)
SubKilled == KillSent /\ SubExit

(* A session used through execute_raw and then dropped.  The drop runs on the
   caller's thread, and a signalled subprocess ends; a subprocess that was
   not signalled may hang for ever. *)
DropNext ==
    \/ LiveNext
    \/ Drop \/ DropClose \/ DropKill \/ DropWait
    \/ SubShutdown \/ SubKilled

DropSpec ==
    /\ Init /\ [][DropNext]_vars
    /\ WF_vars(DropClose) /\ WF_vars(DropKill) /\ WF_vars(DropWait)
    /\ WF_vars(SubKilled)
    /\ WF_vars(MonitorForward) /\ WF_vars(MonitorEof)

(* A session that writes tags and reads them back. *)
WriteNext ==
    \/ CallWriteTag \/ CallWriteTagBinary \/ CallReadBack \/ CallReadTagBinary
    \/ StageNew \/ StageWrite
    \/ ClearRecv \/ ClearDone \/ WriteArgs \/ Flush \/ ReadChunk \/ ReadEof
    \/ Drain1Recv \/ Drain1Empty \/ Drain1Disconnected
    \/ Drain2Timeout \/ Drain2Recv \/ Drain2Empty \/ Drain2Disconnected
    \/ MonitorForward \/ MonitorEof
    \/ SubRead \/ SubWrite \/ SubWriteErr \/ SubWriteOut \/ SubExit

WriteSpec == Init /\ [][WriteNext]_vars



(* ------------------------------------------------------------------ *)
(* Properties                                                          *)
(* ------------------------------------------------------------------ *)
AcceptsNull(T) == T \in {"Option<String>", "Option<u32>"}
Convertible(T, value) ==
    \/ value.kind = "str" /\ T \in {"String", "Option<String>"}
    \/ value.kind = "num" /\ T \in {"u32", "Option<u32>"}

(* the operation has returned, and execute_raw handed it the payload the
   subprocess printed for its command *)
Answered == pc = "done" /\ raw.ok /\ answer.taken /\ raw.v = answer.payload

(* read_tag ran against a readable file whose object the subprocess printed *)
ReadTagAnswered ==
    /\ Answered
    /\ op.name = "read_tag"
    /\ op.path \in Files
    /\ answer.entries = << Entry(op.path, {op.tag}) >>

(* C1: read_tag of a tag that the file's metadata does not hold returns the
   absent value when T accepts null (Option<X>), and TagNotFound with the
   same path and tag when T does not (String, u32). *)
C1_AbsentTag ==
    (ReadTagAnswered /\ op.tag \notin DOMAIN FileTags(op.path))
        => result = IF AcceptsNull(op.T) THEN Ok(RNone)
                    ELSE Err(TagNotFound(op.path, op.tag))

C1_Witness ==
    /\ ReadTagAnswered
    /\ op.tag \notin DOMAIN FileTags(op.path)
    /\ op.T = "Option<u32>"
    /\ result = Ok(RNone)

(* C2: read_tag of a tag that is present with a value that does not convert
   to T returns TagDeserialization with that path and tag, never a value and
   never the absent value, also for T = Option<X>. *)
C2_TypeMismatch ==
    (/\ ReadTagAnswered
     /\ op.tag \in DOMAIN FileTags(op.path)
     /\ ~Convertible(op.T, FileTags(op.path)[op.tag]))
        => result = Err(TagDeserialization(op.path, op.tag))

C2_Witness ==
    /\ ReadTagAnswered
    /\ op.tag = "ImageWidth" /\ op.path = "a.jpg"
    /\ op.T = "Option<String>"
    /\ result = Err(TagDeserialization("a.jpg", "ImageWidth"))

(* execute_raw reached its classification: the marker was read and the drain
   returned lines *)
Classified == pc = "done" /\ ~eof /\ drained.ok /\ Len(drained.v) > 0

(* C3: when the line that decides the classification (the first drained line
   that contains "Error:") is "Error: File not found - <p>" for a requested
   path p, execute_raw returns FileNotFound with exactly p as path, not
   ExifToolProcess, and the operation built on it returns the same error. *)
C3_FileNotFound ==
    Classified =>
        \A i \in DOMAIN drained.v : \A p \in Range(args) :
            (/\ starts_with(drained.v[i].text, FNF_PREFIX \o p)
             /\ \A j \in 1..(i - 1) : ~contains(drained.v[j].text, "Error:"))
                => /\ raw = Err(FileNotFound(p, join(args, " ")))
                   /\ result = raw

C3_Witness ==
    /\ Classified
    /\ op.name = "json" /\ op.path = MissingFile
    /\ drained.v = << [text |-> FNF_PREFIX \o MissingFile \o " ", stale |-> FALSE] >>
    /\ result = Err(FileNotFound(MissingFile, join(args, " ")))

(* execute_raw ran to its classification against a live subprocess that took
   this command and emitted no line containing "Error:" for it *)
CleanCommand ==
    /\ pc = "done" /\ ~eof /\ drained.ok
    /\ answer.taken
    /\ \A i \in DOMAIN answer.err : ~contains(answer.err[i], "Error:")

(* C4: after a command that failed by diagnostic classification (FileNotFound
   or ExifToolProcess), the next execute_raw returns exactly the payload the
   subprocess produced for that next command, and returns Ok when that next
   command emits no error line. *)
C4_NextCommandClean ==
    (CleanCommand /\ prev \in {"FileNotFound", "ExifToolProcess"})
        => raw = Ok(answer.payload)

(* C5: a diagnostic line the subprocess emitted while handling command N is
   never among the lines execute_raw classifies for command N+1. *)
C5_NoStaleLine ==
    (pc = "done" /\ ~eof /\ drained.ok)
        => \A i \in DOMAIN drained.v : ~drained.v[i].stale

(* C6: the session cannot deadlock on diagnostic output: however many lines
   the subprocess writes to stderr, the monitor keeps consuming them, so the
   stdout read of execute_raw always eventually returns, with the marker
   unless the subprocess died. *)
C6_MarkerObserved ==
    (pc = "read") ~> (pc = "drain1" /\ (~eof \/ sub_pc = "dead"))

C6_Witness ==
    /\ pc = "drain1" /\ ~eof /\ sub_pc = "wait"
    /\ answer.taken /\ Len(answer.err) > StderrPipeCap
    /\ stdout_bytes = answer.payload

(* C7: json_batch with N >= 1 paths sends the extra arguments followed by the
   paths in the supplied order and, when it returns values, returns exactly N
   of them, the i-th being the subprocess's entry for the i-th path. *)
C7_BatchOrderAndLength ==
    (/\ pc = "done" /\ op.name = "json_batch" /\ Len(op.paths) >= 1
     /\ answer.taken /\ result.ok)
        => /\ answer.args = << "-json" >> \o op.extra \o op.paths
           /\ Len(result.v) = Len(op.paths)
           /\ \A i \in DOMAIN op.paths :
                 get(result.v[i], "SourceFile") = Some(JStr(op.paths[i]))

(* C8 as the specification states it: json_batch of an empty collection of
   paths returns Ok with an empty sequence. *)
C8_EmptyBatchIsEmptyList ==
    (pc = "done" /\ op.name = "json_batch" /\ op.paths = << >>)
        => result = Ok(<< >>)

(* C8: json_batch of an empty collection of paths returns from its first step
   with the UnexpectedFormat error and does not invoke the subprocess: nothing
   is written to its stdin and nothing is read from its stdout. *)
C8_EmptyBatchNotSent ==
    [][(/\ calls' = calls + 1
        /\ op'.name = "json_batch"
        /\ op'.paths = << >>)
          => /\ pc' = "done"
             /\ ~result'.ok
             /\ result'.e.kind = "UnexpectedFormat"
             /\ raw' = NoRaw
             /\ UNCHANGED << stdin_buf, stdin_pipe, stdout_pipe, chan >>]_vars

C8_Witness ==
    /\ pc = "done" /\ prev = "FileNotFound"
    /\ op.name = "json_batch" /\ op.paths = << >> /\ op.extra = << >>
    /\ raw = NoRaw
    /\ result = Err(UnexpectedFormat("", ""))

(* C9: json_batch called with no file paths returns the UnexpectedFormat
   error; it carries an empty path and the extra arguments joined by ",". *)
C9_EmptyBatchError ==
    (pc = "done" /\ op.name = "json_batch" /\ op.paths = << >>)
        => result = Err(UnexpectedFormat("", join(op.extra, ",")))

C9_Witness ==
    /\ pc = "done"
    /\ op.name = "json_batch" /\ op.paths = << >> /\ op.extra = << "-Make" >>
    /\ result = Err(UnexpectedFormat("", "-Make"))

(* C10: json returns UnexpectedFormat carrying the requested path when the
   subprocess answers with an empty array for the one requested file, never a
   null or missing value. *)
C10_EmptyArray ==
    (Answered /\ op.name = "json" /\ answer.payload = "[]")
        => result = Err(UnexpectedFormat(op.path, join(op.extra \o << op.path >>, " ")))

C10_Witness ==
    /\ Answered /\ op.name = "json" /\ answer.payload = "[]"
    /\ op.path = "a.jpg" /\ op.extra = << "-Make" >>
    /\ result = Err(UnexpectedFormat("a.jpg", "-Make a.jpg"))

(* C11: json_tag sends one command, "-json", "-TAG" and the path, and on the
   object the subprocess printed for the file returns TagNotFound with that
   path and tag exactly when the object has no key equal to the tag, and
   otherwise that key's value unchanged. *)
C11_JsonTag ==
    (Answered /\ op.name = "json_tag" /\ Len(answer.entries) >= 1)
        => /\ answer.args = << "-json", "-" \o op.tag, op.path >>
           /\ result = IF op.tag \in DOMAIN answer.entries[1].fields
                       THEN Ok(answer.entries[1].fields[op.tag])
                       ELSE Err(TagNotFound(op.path, op.tag))

C11_Witness ==
    /\ Answered /\ op.name = "json_tag" /\ Len(answer.entries) = 1
    /\ op.path = "a.jpg" /\ op.tag = "NoSuchTag"
    /\ calls = 1
    /\ result = Err(TagNotFound("a.jpg", "NoSuchTag"))

(* json_tag returned the value of a key that is present *)
C11_WitnessPresent ==
    /\ Answered /\ op.name = "json_tag"
    /\ op.path = "a.jpg" /\ op.tag = "ImageWidth"
    /\ result = Ok(JNum(2688))

(* the arguments an operation built on json_execute hands to it *)
JsonOps == {"json_batch", "json", "json_tag", "read_tag"}
JsonExecuteArgs(o) ==
    CASE o.name = "json_batch" -> o.extra \o o.paths
      [] o.name = "json" -> o.extra \o << o.path >>
      [] OTHER -> << "-" \o o.tag, o.path >>
FirstPath(o) == IF o.name = "json_batch" THEN o.paths[1] ELSE o.path

(* json_execute ran: the operation sent a command and execute_raw returned a
   payload for it *)
JsonExecuted ==
    /\ pc = "done" /\ op.name \in JsonOps
    /\ answer.taken /\ raw.ok

(* C12 as the specification states it: on a payload of zero bytes
   json_execute fails with an error of the kind EmptyResult. *)
C12_EmptyResultKind ==
    (JsonExecuted /\ raw.v = "")
        => (~result.ok /\ result.e.kind = "EmptyResult")

(* C12: json_execute sends "-json" followed by the caller's arguments; on a
   payload of zero bytes it fails, without decoding, with UnexpectedFormat
   carrying the first argument that is not an option and the sent arguments
   joined by spaces; the payload "[]" decodes to the empty array and is no
   error of json_execute. *)
C12_JsonExecute ==
    JsonExecuted
        => /\ answer.args = << "-json" >> \o JsonExecuteArgs(op)
           /\ (raw.v = "" =>
                 result = Err(UnexpectedFormat(FirstPath(op), join(answer.args, " "))))
           /\ (raw.v = "[]" =>
                 /\ json_execute(JsonExecuteArgs(op), raw).result = Ok(JArr(<< >>))
                 /\ (op.name = "json_batch" => result = Ok(<< >>))
                 /\ (~result.ok => result.e.command_args # join(answer.args, " ")))

C12_Witness ==
    /\ JsonExecuted /\ raw.v = ""
    /\ op.name = "json_batch" /\ op.paths = << "a.jpg" >> /\ op.extra = << >>
    /\ result = Err(UnexpectedFormat("a.jpg", "-json a.jpg"))

(* json_execute decoded the empty array *)
C12_WitnessEmptyArray ==
    /\ JsonExecuted /\ raw.v = "[]"
    /\ op.name = "json_batch" /\ result = Ok(<< >>)

(* the subprocess took the command and the stdout read of execute_raw ended
   with the marker, not with the end of the stream *)
MarkerObserved == pc = "done" /\ ~eof /\ answer.taken

(* C13: when the marker was observed and no drained line contains "Error:"
   (no line, warnings, other text), execute_raw returns Ok with exactly the
   payload the framer produced. *)
C13_WarningsOnly ==
    (/\ MarkerObserved /\ drained.ok
     /\ \A i \in DOMAIN drained.v : ~contains(drained.v[i].text, "Error:"))
        => raw = Ok(stdout_bytes)

C13_Witness ==
    /\ MarkerObserved /\ drained.ok
    /\ Len(drained.v) > 0
    /\ \A i \in DOMAIN drained.v : contains(drained.v[i].text, "Warning:")
    /\ stdout_bytes # "" /\ stdout_bytes = answer.payload
    /\ raw = Ok(stdout_bytes)

(* C14: when a drained line contains "Error:", execute_raw returns an error
   and not the payload, whatever the payload is; when the first such line is
   not a file-not-found line the error is ExifToolProcess with that line as
   message, all drained lines joined by line feeds as std_err and the
   arguments joined by spaces as command_args. *)
C14_ErrorLine ==
    Classified =>
        \A i \in DOMAIN drained.v :
            (/\ contains(drained.v[i].text, "Error:")
             /\ \A j \in 1..(i - 1) : ~contains(drained.v[j].text, "Error:"))
                => /\ ~raw.ok
                   /\ raw.e.kind \in {"FileNotFound", "ExifToolProcess"}
                   /\ ~starts_with(drained.v[i].text, FNF_PREFIX)
                        => raw = Err(ExifToolProcess(drained.v[i].text,
                                                     join(Texts(drained.v), "\n"),
                                                     join(args, " ")))

C14_Witness ==
    /\ Classified /\ op.name = "execute_raw" /\ op.args = FloodArgs
    /\ Len(drained.v) = 2
    /\ raw = Err(ExifToolProcess("Error: Not a valid JPG - c.jpg",
                                 "Error: Not a valid JPG - c.jpg\n" \o FNF_PREFIX
                                     \o MissingFile,
                                 "c.jpg m.jpg"))

(* an error line decided although the payload was not empty *)
C14_WitnessPayload ==
    /\ Classified /\ calls = 1
    /\ stdout_bytes = "[]" /\ stdout_bytes = answer.payload
    /\ ~raw.ok /\ raw.e.kind = "FileNotFound"

(* C15: when the stdout read reaches the end of the stream before a marker,
   execute_raw returns ExifToolProcess carrying the lines whenever the drain
   received at least one line from the handoff channel, and ProcessTerminated
   only when it received none. *)
C15_EofContext ==
    (pc = "done" /\ eof)
        => raw = IF Len(err_lines) > 0
                 THEN Err(ExifToolProcess(
                          "Process terminated unexpectedly. Stderr:\n"
                              \o join(Texts(err_lines), "\n"),
                          join(Texts(err_lines), "\n"),
                          "<unknown - process terminated>"))
                 ELSE Err(ProcessTerminated)

(* C16: once an operation has returned ProcessTerminated, no later operation
   on the session returns Ok. *)
C16_TerminatedIsTerminal == terminated => ~result.ok

C16_Witness ==
    /\ pc = "done" /\ calls = 2 /\ terminated /\ prev = "ProcessTerminated"
    /\ op.name = "json" /\ op.path = "a.jpg"
    /\ result = Err(IoError)

(* C17: a drop performs, in this order and each once, the write of
   "-stay_open", "False", "-execute" with its flush, the kill and the wait; a
   failed write or kill does not stop the following steps, and when the drop
   has returned the subprocess has exited and has been waited for. *)
DropOrder == << "close", "kill", "wait" >>
C17_DropSteps ==
    /\ Len(drop_steps) <= 3
    /\ \A i \in DOMAIN drop_steps : drop_steps[i].step = DropOrder[i]
    /\ pc = "drop_close" => Len(drop_steps) = 0
    /\ pc = "drop_kill" => Len(drop_steps) = 1
    /\ pc = "drop_wait" => Len(drop_steps) = 2
    /\ pc = "dropped" => (Len(drop_steps) = 3 /\ sub_pc = "dead")
    /\ (pc = "drop_kill" /\ drop_steps[1].ok /\ sub_pc # "dead")
          => stdin_pipe = << "-stay_open", "False", "-execute" >>

C17_Witness ==
    /\ pc = "dropped"
    /\ drop_steps = << Step("close", FALSE), Step("kill", FALSE), Step("wait", TRUE) >>
    /\ sub_pc = "dead"

(* C18: a drop that has begun always returns, whether the subprocess exits on
   the shutdown command, never reads its stdin again, or has exited before. *)
C18_DropCompletes == (pc = "drop_close") ~> (pc = "dropped")

C18_Witness ==
    /\ pc = "dropped"
    /\ drop_steps = << Step("close", TRUE), Step("kill", TRUE), Step("wait", TRUE) >>
    /\ stdin_pipe = << "-stay_open", "False", "-execute" >>

(* execute_raw is running for the operation *)
InFlight == pc \in {"clear", "write", "flush", "read", "drain1", "drain2"}

(* C19: write_tag_binary keeps the temporary file, holding exactly the
   caller's bytes, from before the command is sent until execute_raw has
   returned, so that the subprocess stores exactly these bytes; the file is
   gone when write_tag_binary has returned, with Ok or with any error. *)
C19_TempFileScope ==
    /\ (op.name = "write_tag_binary" /\ InFlight) => temp_file = File(op.data)
    /\ pc \in {"idle", "done"} => temp_file = NoFile
    /\ op.name # "write_tag_binary" => temp_file = NoFile
    /\ (/\ op.name = "write_tag_binary" /\ (InFlight \/ pc = "done")
        /\ answer.taken /\ op.path \in Files)
          => /\ op.tag \in DOMAIN disk[op.path]
             /\ disk[op.path][op.tag] = op.data

C19_Witness ==
    /\ pc = "done" /\ op.name = "write_tag_binary" /\ op.data = "JFIF"
    /\ op.path = MissingFile
    /\ result = Err(FileNotFound(MissingFile, join(args, " ")))
    /\ temp_file = NoFile

(* the subprocess read the staged bytes while the file was there, and the
   call returned Ok *)
C19_WitnessStored ==
    /\ pc = "done" /\ op.name = "write_tag_binary" /\ op.data = "JFIF"
    /\ result = Ok(Unit)
    /\ disk["a.jpg"] = [t \in {"ThumbnailImage"} |-> "JFIF"]
    /\ temp_file = NoFile

(* the staging itself failed *)
C19_WitnessStaging ==
    /\ pc = "done" /\ op.name = "write_tag_binary"
    /\ raw = NoRaw /\ result = Err(IoError) /\ temp_file = NoFile

(* the type a written value is read back as, and the value in that type *)
TypeOf(value) == IF value.t = "str" THEN "String" ELSE "u32"
Typed(value) == IF value.t = "str" THEN RString(value.s) ELSE RU32(value.n)

(* C20: after write_tag(path, tag, v) has returned Ok for a string or an
   integer v, a read_tag of the same path and tag, in the type of v, that the
   subprocess answers with the object of the file returns v. *)
C20_RoundTrip ==
    (/\ ReadTagAnswered
     /\ last_write.some
     /\ last_write.v.path = op.path /\ last_write.v.tag = op.tag
     /\ op.T = TypeOf(last_write.v.value))
        => result = Ok(Typed(last_write.v.value))

(* a round trip that yields the written value *)
C20_RoundTripReached ==
    /\ ReadTagAnswered /\ op.T = "String"
    /\ last_write = Some([path |-> "a.jpg", tag |-> "Make", value |-> VStr("Canon")])
    /\ op.path = "a.jpg" /\ op.tag = "Make"
    /\ result = Ok(RString("Canon"))

(* the subprocess answered the read_tag_binary call with what the file holds *)
BinaryAnswered ==
    /\ Answered
    /\ op.name = "read_tag_binary"
    /\ op.path \in Files
    /\ answer.payload = RawValue(op.path, op.tag)

(* C21: after write_tag_binary(path, tag, bytes, extra_args) has returned Ok,
   a read_tag_binary of the same path and tag on the same session, answered
   by the subprocess with what the file holds, returns exactly bytes. *)
C21_BinaryRoundTrip ==
    (/\ BinaryAnswered
     /\ last_write.some
     /\ last_write.v.path = op.path /\ last_write.v.tag = op.tag
     /\ last_write.v.value.t = "bytes")
        => result = Ok(last_write.v.value.s)

(* a binary round trip that yields the written bytes *)
C21_RoundTripReached ==
    /\ BinaryAnswered
    /\ last_write = Some([path |-> "a.jpg", tag |-> "ThumbnailImage",
                          value |-> VBytes("JFIF")])
    /\ op.path = "a.jpg" /\ op.tag = "ThumbnailImage"
    /\ result = Ok("JFIF")

(* C22: read_tag_binary(path, tag) sends [path, "-b", "-TAG"], the file path
   first; it returns TagNotFound{path, tag} exactly when execute_raw returned
   an empty payload, returns every other payload byte for byte, and hands an
   error of execute_raw on. *)
C22_ReadTagBinary ==
    op.name = "read_tag_binary" =>
        /\ args = << op.path, "-b", "-" \o op.tag >>
        /\ answer.taken => answer.args = << op.path, "-b", "-" \o op.tag >>
        /\ pc = "done" =>
              /\ (raw.ok /\ raw.v = "") => result = Err(TagNotFound(op.path, op.tag))
              /\ (raw.ok /\ raw.v # "") => result = Ok(raw.v)
              /\ ~raw.ok => result = raw
              /\ (~result.ok /\ result.e.kind = "TagNotFound") => (raw.ok /\ raw.v = "")

(* the tag is not in the file: the payload is empty *)
C22_Witness ==
    /\ BinaryAnswered /\ op.path = "b.jpg" /\ op.tag = "NonExistentBinaryTag"
    /\ raw = Ok("")
    /\ result = Err(TagNotFound("b.jpg", "NonExistentBinaryTag"))

(* the tag is in the file: the payload is returned *)
C22_WitnessPayload ==
    /\ BinaryAnswered /\ raw.v # "" /\ result = Ok(raw.v)

Starting == pc \in Range(TakeOrder) \cup {"spawn", "construct"}

(* C23: with_executable fails with ExifToolNotFound exactly when the
   executable could not be started and with the I/O error of the capture when
   a stream could not be taken; after either failure there is no session (no
   call is made, nothing is written to stdin) and no monitor thread; a
   session is returned, and a command is sent, only after the monitor thread
   has been started. *)
C23_Startup ==
    /\ pc = "failed" =>
          /\ ~result.ok /\ result.e \in {ExifToolNotFound, IoError}
          /\ result.e = ExifToolNotFound <=> sub_pc = "none"
          /\ monitor = "none"
          /\ calls = 0 /\ stdin_buf = << >> /\ stdin_pipe = << >> /\ ~answer.taken
    /\ sub_pc = "none" => pc \in {"spawn", "failed"}
    /\ (~Starting /\ pc # "failed") => monitor # "none"
    /\ (calls > 0 \/ stdin_buf # << >> \/ stdin_pipe # << >> \/ answer.taken)
          => monitor # "none"
    /\ monitor # "none" => pc \notin {"spawn", "take_stdin", "take_stdout", "take_stderr", "spawn_monitor"}

(* the executable cannot be started *)
C23_Witness == pc = "failed" /\ result = Err(ExifToolNotFound) /\ monitor = "none"

(* a stream cannot be captured *)
C23_WitnessCapture == pc = "failed" /\ result = Err(IoError) /\ sub_pc # "none"

(* the session answers a command, the monitor thread has carried a line *)
C23_WitnessStarted == pc = "done" /\ calls = 1 /\ ~raw.ok /\ raw.e.kind = "FileNotFound"

(* the arguments a write call is to send *)
WriteArgsOf(o) ==
    << "-" \o o.tag \o (IF o.name = "write_tag" THEN "=" \o to_string(o.value)
                        ELSE "<=" \o TempPath) >>
        \o o.extra \o << o.path >>

(* C24: write_tag sends exactly ["-TAG=VALUE", extra_args.., file path] and
   write_tag_binary ["-TAG<=tempFilePath", extra_args.., file path], in that
   order; each returns Ok(()) exactly when execute_raw returned Ok, whatever
   the payload, and hands an error of execute_raw on. *)
C24_WriteCommands ==
    op.name \in {"write_tag", "write_tag_binary"} =>
        /\ args = WriteArgsOf(op)
        /\ answer.taken =>
              /\ answer.args = WriteArgsOf(op)
              /\ Assignments(answer.args) = << answer.args[1] >>
              /\ PathArgs(answer.args) = << op.path >>
        /\ pc = "done" =>
              /\ result.ok <=> raw.ok
              /\ result.ok => result = Ok(Unit)
              /\ (raw # NoRaw /\ ~raw.ok) => result = raw

(* write_tag returns Ok on a payload that reports nothing *)
C24_Witness ==
    /\ pc = "done" /\ op.name = "write_tag" /\ op.extra # << >>
    /\ answer.taken /\ raw = Ok("") /\ result = Ok(Unit)

(* write_tag_binary returns Ok on the report of the subprocess *)
C24_WitnessBinary ==
    /\ pc = "done" /\ op.name = "write_tag_binary" /\ op.extra # << >>
    /\ answer.taken /\ raw.ok /\ raw.v # "" /\ result = Ok(Unit)

(* both return the error of execute_raw *)
C24_WitnessError ==
    /\ pc = "done" /\ op.name \in {"write_tag", "write_tag_binary"}
    /\ answer.taken /\ ~raw.ok /\ raw.e.kind = "FileNotFound" /\ result = raw

(* what json_tag returned to the read_tag call that has ended *)
JsonTagResult == json_tag(op.path, op.tag, raw).result

(* C25: when json_tag fails with an error other than TagNotFound, read_tag
   returns that error unchanged, for every target type, also for one that
   accepts absence. *)
C25_OtherErrors ==
    (/\ pc = "done" /\ op.name = "read_tag"
     /\ ~JsonTagResult.ok /\ JsonTagResult.e.kind # "TagNotFound")
        => result = JsonTagResult

(* a missing file, read into Option<String> *)
C25_Witness ==
    /\ pc = "done" /\ op.name = "read_tag" /\ op.T = "Option<String>"
    /\ ~raw.ok /\ raw.e.kind = "FileNotFound"
    /\ result = raw

(* the kinds of error that read_tag hands on *)
C25_WitnessFormat ==
    /\ pc = "done" /\ op.name = "read_tag" /\ AcceptsNull(op.T)
    /\ raw.ok /\ ~result.ok /\ result.e.kind = "UnexpectedFormat"
C25_WitnessTerminated ==
    /\ pc = "done" /\ op.name = "read_tag" /\ AcceptsNull(op.T)
    /\ result = Err(ProcessTerminated)

CarriesCommand(r) ==
    (~r.ok /\ r.e.kind \in {"FileNotFound", "ExifToolProcess"})
        => r.e.command_args = join(args, " ")

(* C26: every FileNotFound and every ExifToolProcess error that an operation
   returns carries in command_args the arguments of the command that was
   attempted, joined by spaces. *)
C26_CommandArgs == pc = "done" => (CarriesCommand(raw) /\ CarriesCommand(result))

(* the errors that come from the classification of the drained lines do *)
C26_ClassifiedCarry ==
    (pc = "done" /\ ~eof) => (CarriesCommand(raw) /\ CarriesCommand(result))
C26_ClassifiedReached ==
    /\ pc = "done" /\ ~eof /\ ~result.ok /\ result.e.kind = "ExifToolProcess"
    /\ result.e.command_args = join(args, " ")

(* the commands that are written to stdin and not yet taken *)
Pending == {i \in DOMAIN stdin_pipe : stdin_pipe[i] = "-execute"}

(* C27: at most one request is in flight on a session.  stdin never holds
   the lines of two requests; while the subprocess holds an untaken command,
   works on one or has unread output, the caller is inside the execute_raw
   call that sent it, waiting in the read; a call writes its lines only when
   nothing of an earlier request is left in stdin or stdout; and the command
   the subprocess took last is the one of the current call. *)
C27_OneInFlight ==
    /\ Cardinality(Pending) <= 1
    /\ (sub_pc # "dead" /\ (Pending # {} \/ sub_pc = "run" \/ sub_out # "" \/ stdout_pipe # ""))
          => pc = "read"
    /\ (sub_pc # "dead" /\ pc \in {"idle", "done", "clear", "write", "flush"})
          => (stdin_pipe = << >> /\ stdout_pipe = "")
    /\ answer.taken => answer.args = args

(* the second request is in flight after the first has returned *)
C27_Witness ==
    /\ calls = 2 /\ pc = "read" /\ Pending # {} /\ prev # "NotRun"

(* the payloads of a byte stream: what precedes each sentinel, of either
   form, taken from the front *)
SentinelAt(s) ==
    LET found == {position(s, ready_markers[i]) : i \in 1..2} \ {0}
    IN  IF found = {} THEN 0 ELSE SetMin(found)
SentinelLen(s) ==
    IF position(s, ready_markers[1]) = SentinelAt(s)
    THEN Len(ready_markers[1]) ELSE Len(ready_markers[2])
RECURSIVE Framed(_)
Framed(s) ==
    IF SentinelAt(s) = 0 THEN << >>
    ELSE << SubSeq(s, 1, SentinelAt(s) - 1) >>
         \o Framed(SubSeq(s, SentinelAt(s) + SentinelLen(s), Len(s)))

(* the framer has returned Ok, resp. reported the end of the stream, to the
   execute_raw call that is now draining stderr *)
FramerOk == pc \in {"drain1", "drain2"} /\ ~eof
FramerEof == pc \in {"drain1", "drain2"} /\ eof
(* the bytes of the stream the reader has taken from the pipe *)
Consumed == SubSeq(stream, 1, Len(stream) - Len(sub_out) - Len(stdout_pipe))

(* C28: a payload returned by the framer contains neither "{ready}\n" nor
   "{ready}\r\n". *)
C28_NoSentinelInPayload ==
    FramerOk => \A i \in 1..2 : position(stdout_bytes, ready_markers[i]) = 0

(* with one form of the sentinel in the buffer the payload is what precedes it *)
C28_SingleSentinelReached ==
    /\ FramerOk /\ stream = "A{ready}\r\n" /\ stdout_bytes = "A"

(* C29: however the stream is cut into reads, the k-th call of the framer
   returns the k-th payload of the stream, and reports the end of the stream
   only when the stream holds no k-th payload. *)
C29_KthPayload ==
    /\ FramerOk => (calls <= Len(Framed(stream)) /\ stdout_bytes = Framed(stream)[calls])
    /\ FramerEof => calls > Len(Framed(stream))

(* two responses, each read by its own call *)
C29_TwoFramedReached ==
    /\ FramerOk /\ calls = 2 /\ stream = "A{ready}\nB{ready}\n" /\ stdout_bytes = "B"

(* C30: the end of the stream before a sentinel gives an error,
   ProcessTerminated or ExifToolProcess, never Ok: the framer returns Ok only
   when the bytes it has read hold a sentinel, and then with what precedes
   it, which is the empty payload when nothing does. *)
C30_EofIsError ==
    /\ (pc = "done" /\ eof) =>
          (~raw.ok /\ raw.e.kind \in {"ProcessTerminated", "ExifToolProcess"} /\ result = raw)
    /\ FramerOk => Framed(Consumed) # << >>
    /\ (FramerOk /\ calls = 1 /\ SentinelAt(stream) = 1) => stdout_bytes = ""

(* the output stops inside the marker *)
C30_Witness ==
    /\ pc = "done" /\ eof /\ stream = "A{ready}" /\ raw = Err(ProcessTerminated)

(* a diagnostic is there when the stream ends *)
C30_WitnessProcess ==
    /\ pc = "done" /\ eof /\ stream = "A" /\ ~raw.ok /\ raw.e.kind = "ExifToolProcess"

(* a marker with nothing before it *)
C30_WitnessEmpty ==
    /\ pc = "done" /\ ~eof /\ stream = "{ready}\n" /\ raw = Ok("")

(* C31: execute_raw writes to stdin exactly len(args) + 1 lines, the
   arguments in their order and then "-execute", has flushed them when it
   reads stdout, and the command the subprocess takes is args. *)
C31_LinesWritten ==
    /\ (pc = "flush" /\ calls = 1) => stdin_buf = args \o << "-execute" >>
    /\ pc \in {"read", "drain1", "drain2"} => stdin_buf = << >>
    /\ answer.taken => answer.args = args

(* arguments without a line feed are written one per line and flushed *)
C31_PlainLines ==
    (op.name = "execute_raw" /\ \A i \in DOMAIN args : position(args[i], "\n") = 0) =>
        /\ (pc = "flush" /\ calls = 1) => stdin_buf = args \o << "-execute" >>
        /\ pc \in {"read", "drain1", "drain2"} => stdin_buf = << >>
        /\ answer.taken => answer.args = args
C31_PlainLinesReached ==
    /\ pc = "done" /\ op.name = "execute_raw" /\ answer.taken
    /\ answer.args = << "-Make", "a.jpg" >> /\ raw.ok

(* C32: drain_stderr returns StderrDisconnected only when it has captured no
   line in this drain; with at least one line captured it returns Ok with
   the captured lines. *)
C32_DisconnectedOnlyEmpty ==
    (pc = "done" /\ drained = Err(StderrDisconnected)) => Len(err_lines) = 0

(* C33: drain_stderr always returns: a call that has entered it ends. *)
C33_DrainReturns == (pc \in {"drain1", "drain2"}) ~> (pc = "done")

(* the polls of one drain stay within the timeout *)
C33_PollBound == sleeps * STDERR_POLL_INTERVAL <= STDERR_POLL_TIMEOUT

(* no line arrived: the drain gave up when the timeout had passed *)
C33_Witness ==
    /\ pc = "done" /\ ~eof /\ drained = Ok(<< >>)
    /\ sleeps * STDERR_POLL_INTERVAL = STDERR_POLL_TIMEOUT

(* a line was captured: the drain ended at the next empty poll *)
C33_WitnessEarly ==
    /\ pc = "done" /\ ~eof /\ drained.ok /\ Len(drained.v) = 1
    /\ sleeps * STDERR_POLL_INTERVAL < STDERR_POLL_TIMEOUT

(* C34: the lines the monitor has sent on the channel are, in order, the
   first lines the subprocess has written to stderr: none lost before a sent
   one, none duplicated, none filtered. *)
C34_SentIsPrefix ==
    /\ Len(log.sent) <= Len(log.written)
    /\ log.sent = SubSeq(log.written, 1, Len(log.sent))

(* a warning and an error of one command have been written and sent *)
C34_Witness ==
    /\ Len(log.sent) = 2 /\ log.sent = log.written
    /\ contains(log.sent[1], "Warning:") /\ starts_with(log.sent[2], FNF_PREFIX)

(* C35: the monitor's loop ends only when the stderr stream has closed (the
   subprocess is gone) or the send failed (the session is gone), whatever
   bytes the lines contain. *)
C35_EndsOnlyOnClose ==
    monitor = "ended" => (sub_pc = "dead" \/ ReceiverGone)

(* C36: once the session has been dropped, the monitor thread ends: at the
   send that fails, or when it reads the end of the stream of the subprocess
   that was killed. *)
C36_MonitorEnds == (pc = "dropped") ~> (monitor = "ended")

(* the session was dropped over a running subprocess, and the thread has ended *)
C36_Witness ==
    /\ pc = "dropped" /\ monitor = "ended" /\ KillSent

(* the session is gone while the thread holds a line to send *)
C36_WitnessPending ==
    /\ pc = "dropped" /\ monitor = "running" /\ Len(stderr_pipe) > 0

(* the lines of the drain that decide: those that start with the
   file-not-found prefix or contain "Error:" *)
Deciding(lines) ==
    {i \in DOMAIN lines : starts_with(lines[i], FNF_PREFIX) \/ contains(lines[i], "Error:")}

(* C37: when execute_raw has read the response and drained diagnostic lines,
   the earliest deciding line gives the outcome: FileNotFound with that
   line's path when it starts with the file-not-found prefix, ExifToolProcess
   with that line as message otherwise, whatever lines follow; with no
   deciding line the payload is returned. *)
C37_EarliestLineDecides ==
    (pc = "done" /\ ~eof /\ drained.ok /\ Len(drained.v) > 0) =>
        LET lines == Texts(drained.v)
        IN  IF Deciding(lines) = {} THEN raw = Ok(stdout_bytes)
            ELSE LET first == lines[SetMin(Deciding(lines))]
                 IN  IF starts_with(first, FNF_PREFIX)
                     THEN /\ ~raw.ok /\ raw.e.kind = "FileNotFound"
                          /\ raw.e.path = trim(SubSeq(first, Len(FNF_PREFIX) + 1, Len(first)))
                     ELSE /\ ~raw.ok /\ raw.e.kind = "ExifToolProcess"
                          /\ raw.e.message = first

(* an "Error:" line before a file-not-found line: ExifToolProcess *)
C37_Witness ==
    /\ pc = "done" /\ ~eof /\ drained.ok /\ Len(drained.v) = 2
    /\ ~starts_with(drained.v[1].text, FNF_PREFIX)
    /\ contains(drained.v[1].text, "Error:")
    /\ starts_with(drained.v[2].text, FNF_PREFIX)
    /\ raw.e.kind = "ExifToolProcess"

(* a file-not-found line before another "Error:" line: FileNotFound *)
C37_WitnessFnfFirst ==
    /\ pc = "done" /\ ~eof /\ drained.ok /\ Len(drained.v) = 2
    /\ starts_with(drained.v[1].text, FNF_PREFIX)
    /\ contains(drained.v[2].text, "Error:")
    /\ raw.e.kind = "FileNotFound" /\ raw.e.path = MissingFile

(* C38: json returns the first entry of the response array and ignores the
   entries after it: a response of several entries is Ok(first entry). *)
C38_FirstEntry ==
    (pc = "done" /\ op.name = "json" /\ raw.ok /\ Len(answer.entries) > 0
        /\ raw.v = ValueText(JArr(answer.entries))) =>
        result = Ok(answer.entries[1])

(* the response had two entries, and the first of them was returned *)
C38_Witness ==
    /\ pc = "done" /\ op.name = "json" /\ raw.ok
    /\ Len(answer.entries) = 2 /\ raw.v = ValueText(JArr(answer.entries))
    /\ answer.entries[1] # answer.entries[2]
    /\ result = Ok(answer.entries[1])

(* the call has read its response up to the marker and has returned *)
Responded == pc = "done" /\ ~eof /\ answer.taken /\ raw # Err(IoError)

(* C39: from a call that starts with the monitor thread ended and the
   subprocess alive, every execute_raw whose response is read up to the
   marker returns StderrDisconnected. *)
C39_DisconnectedForGood ==
    []((pc = "clear" /\ monitor = "ended" /\ sub_pc # "dead")
        => [](Responded => raw = Err(StderrDisconnected)))

(* a command without diagnostics, answered by the subprocess after the monitor
   thread had ended, has returned StderrDisconnected *)
C39_Witness ==
    /\ Responded /\ op.args = << "a.jpg" >> /\ answer.err = << >>
    /\ monitor = "ended" /\ sub_pc = "wait"
    /\ answer.payload # "" /\ stdout_bytes = answer.payload
    /\ raw = Err(StderrDisconnected)

(* C40: permissive never yields Some(n) for an integer that is not n: an
   integer inside the range of u32 yields Some of itself, every integer
   outside it yields None. *)
C40_NoWrap ==
    (pc = "done" /\ op.name = "permissive" /\ op.value.t \in {"i64", "u64"}) =>
        result = Ok(IF op.value.n \in 0..U32_MAX THEN Some(op.value.n) ELSE None)

====
